---- MODULE Spec2Model ----
(***************************************************************************)
(* Model of the suggestion aggregation and evaluation engine of Annif      *)
(* (EHRI fork): transformer and Mistral backends, the ensemble backend,    *)
(* the hit filter and the evaluation commands of the command line.         *)
(*                                                                         *)
(* Scores and thresholds are fixed-point numbers in units of 0.05, so      *)
(* 18 is 0.9, 10 is 0.5, 6 is 0.3 and 20 is 1.0.  Weights are whole        *)
(* numbers (1 is 1.0).                                                      *)
(***************************************************************************)
EXTENDS Integers, Sequences, FiniteSets, TLC

VARIABLES
    vocab,      \* the project's subject registry: index -> [uri, label]
    texts,      \* _suggest_batch: the input texts
    params,     \* _suggest_batch: backend parameters [limit, threshold]
    zsres,      \* what the zero-shot pipeline returned for the non-empty texts
    batch,      \* _suggest_batch: the returned suggestion batch
    bpc,        \* _suggest_batch: "idle", "ready" or "done"
    mresp,      \* Mistral: the API's answer to the request of this call
    mreq,       \* Mistral: number of requests sent
    mraw,       \* Mistral: the list _suggest returned
    msug,       \* Mistral: the suggestion set of the backend call
    mpc,        \* Mistral: "idle", "ready", "done" or "raised"
    sources,    \* ensemble: the 'sources' parameter, a list of entries
    analysis,   \* ensemble: project id -> what project.analyze(text) returns
    merged,     \* ensemble: the merged hits _analyze returned
    epc,        \* ensemble: "idle", "ready" or "done"
    limit,      \* command line: --limit
    threshold,  \* command line: --threshold
    ahits,      \* analyze: what project.analyze(text) returned
    aout,       \* analyze: the lines echoed
    apc,        \* analyze: "idle", "ready" or "done"
    docs,       \* evaldir: the documents of the directory, in file order,
                \* each with the analysis of its text and its gold subjects
    di,         \* evaldir: number of documents evaluated
    ehits,      \* evaldir: the hits passed to the latest evaluate call
    eval_batch, \* evaldir: the EvaluationBatch
    eout,       \* evaldir: the metric lines echoed
    dpc,        \* evaldir: "idle", "loop" or "done"
    lastres,    \* accumulator: the value of the latest results() call
    nreads,     \* accumulator: number of results() calls
    readAt,     \* accumulator: value of di at the latest results() call
    shards,     \* sharded evaluation: one EvaluationBatch per shard
    sj,         \* sharded evaluation: number of documents evaluated
    combined,   \* sharded evaluation: the shards combined
    spc,        \* sharded evaluation: "idle", "map" or "done"
    filter_batches, \* optimize: the ordered dict (limit, threshold) ->
                \* (hit_filter, batch), as the list of its items
    ohits,      \* optimize: the analysis of the latest document, as the
                \* filters of the sweep left it
    oi,         \* optimize: number of documents processed
    best_scores, \* optimize: metric -> best score so far
    best_params, \* optimize: metric -> (limit, threshold) of the best score
    oout,       \* optimize: the lines echoed
    opc,        \* optimize: "idle", "start", "loop", "done" or "error"
    nread,      \* evaldir: number of document files opened and read
    id2label,   \* EhriBert: the labels of the model's config, by index
    probs,      \* EhriBert: the model's probabilities, one row per text
    bert_results, \* EhriBert: what run_pipeline returned
    bertpc,     \* EhriBert: "idle", "ready", "done" or "raised"
    fs,         \* directory: file name -> content, for the files it holds
    require_subjects, \* directory: DocumentDirectory.require_subjects
    globbed,    \* directory: the sorted file names still to iterate
    yielded,    \* directory: the pairs yielded so far
    ipc,        \* directory: "idle", "start", "iter" or "done"
    force,      \* analyzedir: --force
    analyzed,   \* analyzedir: the documents passed to project.analyze
    adout,      \* analyzedir: the output files named in "Not overwriting"
    adpc,       \* analyzedir: "idle", "start", "loop" or "done"
    lines,      \* document file: the lines of the file
    li,         \* document file: number of lines read
    fdocs,      \* document file: the documents yielded so far
    warnings,   \* document file: the warnings logged so far
    fpc         \* document file: "idle", "read" or "done"

batchVars == <<vocab, texts, params, zsres, batch, bpc>>
mistralVars == <<mresp, mreq, mraw, msug, mpc>>
ensembleVars == <<sources, analysis, merged, epc>>
optVars == <<limit, threshold>>
analyzeVars == <<ahits, aout, apc>>
evaldirVars == <<docs, di, ehits, eval_batch, eout, dpc>>
readVars == <<lastres, nreads, readAt>>
shardVars == <<shards, sj, combined, spc>>
sweepVars == <<filter_batches, ohits, oi, best_scores, best_params, oout, opc>>
ioVars == <<nread>>
cliVars ==
    <<optVars, analyzeVars, evaldirVars, readVars, shardVars, sweepVars, ioVars>>
ehriVars == <<id2label, probs, bert_results, bertpc>>
dirVars == <<fs, require_subjects, globbed, yielded, ipc>>
analyzedirVars == <<force, analyzed, adout, adpc>>
fileVars == <<lines, li, fdocs, warnings, fpc>>
corpusVars == <<ehriVars, dirVars, analyzedirVars, fileVars>>
vars == <<batchVars, mistralVars, ensembleVars, cliVars, corpusVars>>

-----------------------------------------------------------------------------
(* Bounds *)

MaxTexts == 3
MaxLabels == 3
MaxSources == 2
MaxDocs == 3
MaxReads == 2
NShards == 2
MaxLines == 3

-----------------------------------------------------------------------------
(* Generic helpers *)

\* by_uri's answer for a URI that does not resolve (subject indices start at 1)
NoSubject == 0

Range(s) == {s[i] : i \in 1..Len(s)}

Min2(a, b) == IF a < b THEN a ELSE b

SeqsUpTo(S, n) == UNION {[1..k -> S] : k \in 0..n}

\* Python list.insert(i, x) with a 0-based index i >= 0: an index past the
\* end appends.
ListInsert(s, i, x) ==
    IF i >= Len(s) THEN Append(s, x)
    ELSE SubSeq(s, 1, i) \o <<x>> \o SubSeq(s, i + 1, Len(s))

\* Python list comprehension [x for x in s if P(x)]
Filter(s, P(_)) == SelectSeq(s, P)

-----------------------------------------------------------------------------
(* Subject registry *)

\* Two vocabularies: one with distinct English labels, one in which two
\* active subjects share a label.
Vocabs ==
    { << [uri |-> "u1", label |-> "x"], [uri |-> "u2", label |-> "y"],
         [uri |-> "u3", label |-> "z"] >>,
      << [uri |-> "u1", label |-> "x"], [uri |-> "u2", label |-> "y"],
         [uri |-> "u3", label |-> "y"] >> }

Subjects == 1..3

\* subjects.by_uri(uri): the index of the subject, NoSubject when it does not
\* resolve
by_uri(v, uri) ==
    IF \E i \in 1..Len(v) : v[i].uri = uri
    THEN CHOOSE i \in 1..Len(v) : v[i].uri = uri
    ELSE NoSubject

\* self._terms = {s.uri: s.labels["en"] for ...}: a dict in insertion order
terms(v) == [i \in 1..Len(v) |-> <<v[i].uri, v[i].label>>]

\* list(self._terms.values())
candidate_labels(v) == [i \in 1..Len(v) |-> terms(v)[i][2]]

\* self._terms_rev = {v: k for k, v in self._terms.items()}: a later entry
\* with the same label replaces the earlier one
terms_rev(v) ==
    [l \in Range(candidate_labels(v)) |->
        LET last == CHOOSE i \in 1..Len(v) :
                        /\ terms(v)[i][2] = l
                        /\ \A j \in 1..Len(v) : terms(v)[j][2] = l => j <= i
        IN terms(v)[last][1]]

-----------------------------------------------------------------------------
(* Suggestion sets (section 4.1) *)

SubjectSuggestion(sid, sc) == [subject_id |-> sid, score |-> sc]

\* s1 is ranked before s2: higher score first, ties by ascending index
RankedBefore(s1, s2) ==
    \/ s1.score > s2.score
    \/ s1.score = s2.score /\ s1.subject_id < s2.subject_id

\* the members of a set of suggestions (distinct subjects) as a sequence in
\* rank order
RECURSIVE RankSeq(_)
RankSeq(S) ==
    IF S = {} THEN <<>>
    ELSE LET top == CHOOSE s \in S : \A o \in S \ {s} : RankedBefore(s, o)
         IN <<top>> \o RankSeq(S \ {top})

\* Section 4.1: drop identifiers that do not resolve, keep the maximum score
\* of a subject named more than once, sort by descending score with ties by
\* ascending subject index.
Normalize(raw) ==
    LET resolved == Filter(raw, LAMBDA s : s.subject_id # NoSubject)
        ids == {resolved[i].subject_id : i \in 1..Len(resolved)}
        best(sid) ==
            CHOOSE sc \in {resolved[i].score : i \in 1..Len(resolved)} :
                /\ \E i \in 1..Len(resolved) :
                      resolved[i].subject_id = sid /\ resolved[i].score = sc
                /\ \A i \in 1..Len(resolved) :
                      resolved[i].subject_id = sid => resolved[i].score <= sc
    IN RankSeq({SubjectSuggestion(sid, best(sid)) : sid \in ids})

\* SuggestionBatch.from_sequence(batch, subjects): one suggestion set per
\* entry, at the same position
from_sequence(b) == [i \in 1..Len(b) |-> Normalize(b[i])]

-----------------------------------------------------------------------------
(* BaseTransformerBackend *)

BlankChars == {" ", "\t"}

\* str.strip(): leading and trailing whitespace removed
RECURSIVE LStrip(_)
LStrip(t) ==
    IF t # <<>> /\ Head(t) \in BlankChars THEN LStrip(Tail(t)) ELSE t

RECURSIVE RStrip(_)
RStrip(t) ==
    IF t # <<>> /\ t[Len(t)] \in BlankChars
    THEN RStrip(SubSeq(t, 1, Len(t) - 1)) ELSE t

Strip(t) == RStrip(LStrip(t))

\* A text is a sequence of characters.
TextSet == { <<>>, <<" ">>, <<"a">>, <<" ", "a">> }

\* Rankings the zero-shot pipeline may return for one text: every candidate
\* (position in candidate_labels) with a score, in non-increasing score order.
ZsRankings ==
    { << <<1, 18>>, <<2, 10>>, <<3, 0>> >>,
      << <<3, 18>>, <<2, 18>>, <<1, 10>> >>,
      << <<2, 10>>, <<3, 10>>, <<1, 6>> >>,
      << <<2, 0>>, <<1, 0>>, <<3, 0>> >> }

\* the pipeline's result dict for one text: {"labels": [...], "scores": [...]}
ZsResult(v, ranking) ==
    [labels |-> [i \in 1..Len(ranking) |-> candidate_labels(v)[ranking[i][1]]],
     scores |-> [i \in 1..Len(ranking) |-> ranking[i][2]]]

ZsResults(v) == {ZsResult(v, r) : r \in ZsRankings}

ParamSet == [limit : {1, 2, 3}, threshold : {0, 10}]

\* the nested function suggestions(result) of run_pipeline
suggestions(v, result, thr, num) ==
    LET num_results == Len(result.labels)
        n == Min2(num, num_results)
        idx == Filter([i \in 1..n |-> i],
                      LAMBDA i : result.scores[i] > thr)
    IN [k \in 1..Len(idx) |->
            <<terms_rev(v)[result.labels[idx[k]]],
              result.labels[idx[k]],
              result.scores[idx[k]]>>]

\* run_pipeline(texts, params, num); results is what self._zs returned
run_pipeline(v, txts, results, p, num) ==
    IF Len(txts) = 0 THEN <<>>
    ELSE [k \in 1..Len(results) |->
              suggestions(v, results[k], p.threshold, num)]

make_suggestion(v, uri, score) == SubjectSuggestion(by_uri(v, uri), score)

\* the loop "for i in range(len(texts)): if i not in non_empty_indices:
\* batch.insert(i, [])", from index i (0-based) on
RECURSIVE ReinsertEmpty(_, _, _, _)
ReinsertEmpty(b, n, non_empty_indices, i) ==
    IF i >= n THEN b
    ELSE ReinsertEmpty(
             IF i \notin non_empty_indices THEN ListInsert(b, i, <<>>) ELSE b,
             n, non_empty_indices, i + 1)

\* mutant: the empty entries are appended after the pipeline's results
suggest_batch_append(v, txts, p, results) ==
    LET non_empty == Filter(txts, LAMBDA t : Strip(t) # <<>>)
        text_suggestions == run_pipeline(v, non_empty, results, p, p.limit)
        b == [k \in 1..Len(text_suggestions) |->
                [j \in 1..Len(text_suggestions[k]) |->
                    make_suggestion(v, text_suggestions[k][j][1],
                                    text_suggestions[k][j][3])]]
    IN from_sequence(
           b \o [i \in 1..(Len(txts) - Len(non_empty)) |-> <<>>])

\* mutant: the batch is returned without SuggestionBatch.from_sequence
suggest_batch_raw(v, txts, p, results) ==
    LET non_empty == Filter(txts, LAMBDA t : Strip(t) # <<>>)
        non_empty_indices ==
            {i - 1 : i \in {j \in 1..Len(txts) : Strip(txts[j]) # <<>>}}
        text_suggestions == run_pipeline(v, non_empty, results, p, p.limit)
        b == [k \in 1..Len(text_suggestions) |->
                [j \in 1..Len(text_suggestions[k]) |->
                    make_suggestion(v, text_suggestions[k][j][1],
                                    text_suggestions[k][j][3])]]
    IN ReinsertEmpty(b, Len(txts), non_empty_indices, 0)

\* _suggest_batch(texts, params); results is what self._zs returned for the
\* non-empty texts
suggest_batch(v, txts, p, results) ==
    IF Len(txts) = 0 THEN <<>>
    ELSE
    LET num == p.limit
        non_empty == Filter(txts, LAMBDA t : Strip(t) # <<>>)
        non_empty_indices ==
            {i - 1 : i \in {j \in 1..Len(txts) : Strip(txts[j]) # <<>>}}
        text_suggestions == run_pipeline(v, non_empty, results, p, num)
        b == [k \in 1..Len(text_suggestions) |->
                [j \in 1..Len(text_suggestions[k]) |->
                    make_suggestion(v, text_suggestions[k][j][1],
                                    text_suggestions[k][j][3])]]
    IN from_sequence(ReinsertEmpty(b, Len(txts), non_empty_indices, 0))

NonEmptyCount(txts) == Len(Filter(txts, LAMBDA t : Strip(t) # <<>>))

BatchIdle ==
    /\ vocab = <<>> /\ texts = <<>> /\ params = [limit |-> 1, threshold |-> 0]
    /\ zsres = <<>> /\ batch = <<>> /\ bpc = "idle"

InitBatch ==
    /\ vocab \in Vocabs
    /\ texts \in SeqsUpTo(TextSet, MaxTexts)
    /\ params \in ParamSet
    /\ zsres = <<>>
    /\ batch = <<>>
    /\ bpc = "ready"

\* One call of _suggest_batch: the pipeline (a black box) answers with one
\* result per non-empty text.
SuggestBatch ==
    /\ bpc = "ready"
    /\ \E results \in [1..NonEmptyCount(texts) -> ZsResults(vocab)] :
          /\ zsres' = results
          /\ batch' = suggest_batch(vocab, texts, params, results)
    /\ bpc' = "done"
    /\ UNCHANGED <<vocab, texts, params>>
    /\ UNCHANGED <<mistralVars, ensembleVars, cliVars, corpusVars>>

-----------------------------------------------------------------------------
(* MistralBackend *)

\* message content that json.loads rejects, and content that is a JSON list
NotJson == [json |-> FALSE, labels |-> <<>>]
JsonList(labels) == [json |-> TRUE, labels |-> labels]

\* Labels the model may name: vocabulary labels and one that is no label of
\* the vocabulary.
LlmLabels == {"x", "y", "w"}

\* The API's answer: the request fails, the status is an error, the body of
\* a success answer is not JSON or is a JSON object without "choices", the
\* answer has no choices, or its first choice holds a content string that is
\* either not JSON or a JSON list of strings.
MistralResponses ==
    { [kind |-> "request_error", choices |-> <<>>],
      [kind |-> "http_error", choices |-> <<>>],
      [kind |-> "bad_body", choices |-> <<>>],
      [kind |-> "no_choices_key", choices |-> <<>>],
      [kind |-> "ok", choices |-> <<>>],
      [kind |-> "ok", choices |-> <<NotJson>>] }
    \cup { [kind |-> "ok", choices |-> <<JsonList(labels)>>] :
              labels \in SeqsUpTo(LlmLabels, MaxLabels) }

\* response.json() and out['choices'] stand outside the try blocks of
\* _suggest: a body that is not JSON, or has no "choices", raises
mistral_raises(response) == response.kind \in {"bad_body", "no_choices_key"}

\* mutant: one label that does not resolve discards the whole answer
mistral_suggest_strict(v, response) ==
    IF response.kind \in {"request_error", "http_error"} THEN <<>>
    ELSE IF response.choices = <<>> THEN <<>>
    ELSE IF ~response.choices[1].json THEN <<>>
    ELSE
    LET text_labels == response.choices[1].labels
    IN IF \E i \in 1..Len(text_labels) : text_labels[i] \notin DOMAIN terms_rev(v)
       THEN <<>>
       ELSE [k \in 1..Len(text_labels) |->
                SubjectSuggestion(by_uri(v, terms_rev(v)[text_labels[k]]),
                                  18 - (k - 1))]

\* MistralBackend._suggest(text, params), given the API's answer, when it
\* returns
mistral_suggest(v, response) ==
    IF response.kind \in {"request_error", "http_error"} THEN <<>>
    ELSE IF response.choices = <<>> THEN <<>>
    ELSE IF ~response.choices[1].json THEN <<>>
    ELSE
    LET text_labels == response.choices[1].labels
        known == Filter([i \in 1..Len(text_labels) |-> i],
                        LAMBDA i : text_labels[i] \in DOMAIN terms_rev(v))
        sugg == [k \in 1..Len(known) |->
                    [uri |-> terms_rev(v)[text_labels[known[k]]],
                     label |-> text_labels[known[k]],
                     score |-> 18 - (known[k] - 1)]]
    IN [k \in 1..Len(sugg) |->
            SubjectSuggestion(by_uri(v, sugg[k].uri), sugg[k].score)]

\* AnnifBackend.suggest around _suggest: the returned list becomes a
\* suggestion set (section 4.1)
backend_suggest(raw) == Normalize(raw)

MistralIdle ==
    /\ mresp = [kind |-> "none", choices |-> <<>>] /\ mreq = 0 /\ mraw = <<>> /\ msug = <<>> /\ mpc = "idle"

InitMistral ==
    /\ mresp \in MistralResponses
    /\ mreq = 0
    /\ mraw = <<>>
    /\ msug = <<>>
    /\ mpc = "ready"

\* One backend call on the Mistral backend.
MistralSuggest ==
    /\ mpc = "ready"
    /\ mreq' = mreq + 1
    /\ IF mistral_raises(mresp)
       THEN /\ mpc' = "raised"
            /\ UNCHANGED <<mraw, msug>>
       ELSE /\ mraw' = mistral_suggest(vocab, mresp)
            /\ msug' = backend_suggest(mistral_suggest(vocab, mresp))
            /\ mpc' = "done"
    /\ UNCHANGED <<mresp, corpusVars, batchVars, ensembleVars, cliVars>>

-----------------------------------------------------------------------------
(* EnsembleBackend *)

Projects == {"p1", "p2"}

\* weight tokens of the 'sources' parameter; NoWeight: no ":weight" given
NoWeight == "omitted"
WeightTokens == {"0", "1", "2", NoWeight}

SourceEntries == [project : Projects, weight : WeightTokens]

\* float(token), with the default weight 1.0 for an omitted token
parse_weight(tok) ==
    CASE tok = "0" -> 0
      [] tok = "1" -> 1
      [] tok = "2" -> 2
      [] tok = NoWeight -> 1

\* annif.util.parse_sources(params['sources'])
parse_sources(param) ==
    [i \in 1..Len(param) |-> <<param[i].project, parse_weight(param[i].weight)>>]

EnsembleSubjects == {1, 2}
EnsembleScores == {0, 10, 18}

\* the suggestion sets a source project may return: every subject at most
\* once, in rank order
SourceHitSets ==
    { RankSeq({SubjectSuggestion(sid, f[sid]) : sid \in DOMAIN f}) :
        f \in UNION {[S -> EnsembleScores] : S \in SUBSET EnsembleSubjects} }

WeightedHits(h, w) == [hits |-> h, weight |-> w]

\* mutant: the weight of a source is not passed on
analyze_with_sources_noweight(an, srcs) ==
    [i \in 1..Len(srcs) |->
        WeightedHits(Filter(an[srcs[i][1]], LAMBDA hit : hit.score > 0), 1)]

\* mutant: every hit of a source is passed on
analyze_with_sources_nofilter(an, srcs) ==
    [i \in 1..Len(srcs) |-> WeightedHits(an[srcs[i][1]], srcs[i][2])]

\* EnsembleBackend._analyze_with_sources(text, sources); an[p] is what
\* project p's analyze(text) returns
analyze_with_sources(an, srcs) ==
    [i \in 1..Len(srcs) |->
        WeightedHits(Filter(an[srcs[i][1]], LAMBDA hit : hit.score > 0),
                     srcs[i][2])]

\* the score of subject sid in a suggestion set, 0 if absent
ScoreOf(hits, sid) ==
    IF \E i \in 1..Len(hits) : hits[i].subject_id = sid
    THEN hits[CHOOSE i \in 1..Len(hits) : hits[i].subject_id = sid].score
    ELSE 0

RECURSIVE WeightedSum(_, _, _)
WeightedSum(whits, sid, i) ==
    IF i > Len(whits) THEN 0
    ELSE ScoreOf(whits[i].hits, sid) * whits[i].weight
         + WeightedSum(whits, sid, i + 1)

\* annif.util.merge_hits (section 4.2): for every subject of any input set
\* the weighted sum of its scores, re-sorted
merge_hits(whits) ==
    LET ids == UNION {{whits[i].hits[j].subject_id :
                          j \in 1..Len(whits[i].hits)} : i \in 1..Len(whits)}
    IN RankSeq({SubjectSuggestion(sid, WeightedSum(whits, sid, 1)) :
                   sid \in ids})

\* EnsembleBackend._analyze(text, project, params)
ensemble_analyze(an, param) ==
    merge_hits(analyze_with_sources(an, parse_sources(param)))

EnsembleIdle ==
    /\ sources = <<>> /\ analysis = [p \in Projects |-> <<>>] /\ merged = <<>> /\ epc = "idle"

InitEnsemble ==
    /\ sources \in SeqsUpTo(SourceEntries, MaxSources) \ {<<>>}
    /\ analysis \in [Projects -> SourceHitSets]
    /\ merged = <<>>
    /\ epc = "ready"

\* One call of _analyze on the ensemble backend.
EnsembleAnalyze ==
    /\ epc = "ready"
    /\ merged' = ensemble_analyze(analysis, sources)
    /\ epc' = "done"
    /\ UNCHANGED <<sources, analysis, corpusVars, batchVars, mistralVars, cliVars>>

-----------------------------------------------------------------------------
(* Hit filter (section 4.3) *)

\* HitFilter(limit, threshold)(hits): drop every suggestion whose score is
\* not above the threshold, then keep the first `limit` of the rest
HitFilter(hits, lim, thr) ==
    LET passing == Filter(hits, LAMBDA hit : hit.score > thr)
    IN SubSeq(passing, 1, Min2(lim, Len(passing)))

Limits == {1, 2, 3}
Thresholds == {0, 10}

AnalysisScores == {0, 6, 10, 18}

\* what project.analyze(text) may return: a suggestion set over the
\* vocabulary
AnalysisSets ==
    { RankSeq({SubjectSuggestion(sid, f[sid]) : sid \in DOMAIN f}) :
        f \in UNION {[S -> AnalysisScores] : S \in SUBSET Subjects} }

-----------------------------------------------------------------------------
(* annif analyze *)

\* the line echoed for a hit: "<uri>\tlabel\tscore"
HitLine(v, hit) ==
    [uri |-> v[hit.subject_id].uri, label |-> v[hit.subject_id].label,
     score |-> hit.score]

\* mutant: the hits are echoed without passing the hit filter
run_analyze_nofilter(v, hits, lim, thr) ==
    [k \in 1..Len(hits) |-> HitLine(v, hits[k])]

\* run_analyze: the lines echoed for the hits of the analyzed text
run_analyze(v, hits, lim, thr) ==
    LET filtered == HitFilter(hits, lim, thr)
    IN [k \in 1..Len(filtered) |-> HitLine(v, filtered[k])]

AnalyzeIdle == ahits = <<>> /\ aout = <<>> /\ apc = "idle"

InitAnalyze ==
    /\ ahits \in AnalysisSets
    /\ aout = <<>>
    /\ apc = "ready"

RunAnalyze ==
    /\ apc = "ready"
    /\ aout' = run_analyze(vocab, ahits, limit, threshold)
    /\ apc' = "done"
    /\ UNCHANGED <<ahits, optVars, evaldirVars, readVars, shardVars>>
    /\ UNCHANGED <<corpusVars, batchVars, mistralVars, ensembleVars, sweepVars, ioVars>>

-----------------------------------------------------------------------------
(* Evaluation batch (section 4.4); metric values are exact fractions <<n, d>> *)

RECURSIVE GCD(_, _)
GCD(a, b) == IF b = 0 THEN a ELSE GCD(b, a % b)

Rat(n, d) == IF n = 0 THEN <<0, 1>> ELSE <<n \div GCD(n, d), d \div GCD(n, d)>>
RatAdd(a, b) ==
    LET l == (a[2] \div GCD(a[2], b[2])) * b[2]
    IN Rat(a[1] * (l \div a[2]) + b[1] * (l \div b[2]), l)
RatMul(a, b) == Rat(a[1] * b[1], a[2] * b[2])
RatDiv(a, b) == Rat(a[1] * b[2], a[2] * b[1])
Zero == <<0, 1>>

Precision == "Precision (per document average)"
Recall == "Recall (per document average)"
F1 == "F1 score (per document average)"
NDCG5 == "NDCG@5"
NDCG10 == "NDCG@10"
Metrics == {Precision, Recall, F1, NDCG5, NDCG10}

PredictedSet(pred) == {pred[i].subject_id : i \in 1..Len(pred)}
true_positives(pred, gold) == Cardinality(PredictedSet(pred) \cap gold)
false_positives(pred, gold) == Cardinality(PredictedSet(pred) \ gold)
false_negatives(pred, gold) == Cardinality(gold \ PredictedSet(pred))

precision(pred, gold) ==
    LET tp == true_positives(pred, gold)
        fp == false_positives(pred, gold)
    IN IF tp + fp = 0 THEN Zero ELSE Rat(tp, tp + fp)

recall(pred, gold) ==
    LET tp == true_positives(pred, gold)
        fn == false_negatives(pred, gold)
    IN IF gold = {} THEN Zero ELSE Rat(tp, tp + fn)

f1_score(pred, gold) ==
    LET p == precision(pred, gold)
        r == recall(pred, gold)
    IN IF p = Zero /\ r = Zero THEN Zero
       ELSE RatDiv(RatMul(<<2, 1>>, RatMul(p, r)), RatAdd(p, r))

\* 1/log2(r+1) for the ranks 1..10, in units of 1/1000
Discount == <<1000, 631, 500, 431, 387, 356, 333, 315, 301, 289>>

RECURSIVE DCG(_, _, _)
DCG(pred, gold, r) ==
    IF r = 0 THEN 0
    ELSE DCG(pred, gold, r - 1)
         + (IF pred[r].subject_id \in gold THEN Discount[r] ELSE 0)

RECURSIVE IdealDCG(_)
IdealDCG(r) == IF r = 0 THEN 0 ELSE IdealDCG(r - 1) + Discount[r]

ndcg(pred, gold, k) ==
    IF gold = {} THEN Zero
    ELSE Rat(DCG(pred, gold, Min2(k, Len(pred))),
             IdealDCG(Min2(k, Cardinality(gold))))

\* the value of a metric for one document
MetricValue(m, pred, gold) ==
    CASE m = Precision -> precision(pred, gold)
      [] m = Recall -> recall(pred, gold)
      [] m = F1 -> f1_score(pred, gold)
      [] m = NDCG5 -> ndcg(pred, gold, 5)
      [] m = NDCG10 -> ndcg(pred, gold, 10)

\* whether a document enters the average of a metric: recall and NDCG leave
\* out a document without gold subjects
Counted(m, gold) == m \in {Recall, NDCG5, NDCG10} => gold # {}

\* EvaluationBatch(): per metric a running total and a document count
EvaluationBatch ==
    [total |-> [m \in Metrics |-> Zero], count |-> [m \in Metrics |-> 0]]

\* EvaluationBatch.evaluate(hits, gold_subjects)
evaluate(acc, pred, gold) ==
    [total |-> [m \in Metrics |->
                  IF Counted(m, gold)
                  THEN RatAdd(acc.total[m], MetricValue(m, pred, gold))
                  ELSE acc.total[m]],
     count |-> [m \in Metrics |->
                  IF Counted(m, gold) THEN acc.count[m] + 1
                  ELSE acc.count[m]]]

\* EvaluationBatch.results(): the mean of every metric over the documents
\* counted for it
results(acc) ==
    [m \in Metrics |->
        IF acc.count[m] = 0 THEN Zero
        ELSE RatDiv(acc.total[m], <<acc.count[m], 1>>)]

\* a results() call: the batch it leaves and the value it returns
results_call(acc) == [state |-> acc, value |-> results(acc)]

\* mutant: the counts of the second shard are left out
combine_first_count(a, b) ==
    [total |-> [m \in Metrics |-> RatAdd(a.total[m], b.total[m])],
     count |-> [m \in Metrics |-> a.count[m]]]

\* two batches combined by summing totals and counts (section 5)
combine(a, b) ==
    [total |-> [m \in Metrics |-> RatAdd(a.total[m], b.total[m])],
     count |-> [m \in Metrics |-> a.count[m] + b.count[m]]]

-----------------------------------------------------------------------------
(* annif evaldir *)

\* The documents a directory may hold: the analysis of the text and the
\* gold subjects of the subject file.
DocKinds ==
    { [hits |-> <<SubjectSuggestion(1, 18), SubjectSuggestion(2, 10),
                  SubjectSuggestion(3, 6)>>, gold |-> {1, 3}],
      [hits |-> <<SubjectSuggestion(2, 18), SubjectSuggestion(1, 10)>>,
       gold |-> {1}],
      [hits |-> <<>>, gold |-> {2}],
      [hits |-> <<SubjectSuggestion(1, 18), SubjectSuggestion(3, 8)>>,
       gold |-> {1, 2}],
      [hits |-> <<SubjectSuggestion(3, 10)>>, gold |-> {}] }

\* mutant: the hit filter is built without the limit
evaldir_hits_nolimit(doc, lim, thr) ==
    Filter(doc.hits, LAMBDA hit : hit.score > thr)

\* run_evaldir: hits = hit_filter(project.analyze(text, backend_params))
evaldir_hits(doc, lim, thr) == HitFilter(doc.hits, lim, thr)

\* mutant: a new EvaluationBatch is made for every document
evaldir_iteration_fresh(acc, doc, lim, thr) ==
    evaluate(EvaluationBatch, evaldir_hits(doc, lim, thr), doc.gold)

\* mutant: the document is evaluated twice
evaldir_iteration_twice(acc, doc, lim, thr) ==
    evaluate(evaluate(acc, evaldir_hits(doc, lim, thr), doc.gold),
             evaldir_hits(doc, lim, thr), doc.gold)

\* mutant: a document without gold subjects is not evaluated at all
evaldir_iteration_skipempty(acc, doc, lim, thr) ==
    IF doc.gold = {} THEN acc
    ELSE evaluate(acc, evaldir_hits(doc, lim, thr), doc.gold)

\* run_evaldir: one iteration of the loop over the directory
evaldir_iteration(acc, doc, lim, thr) ==
    evaluate(acc, evaldir_hits(doc, lim, thr), doc.gold)

\* the metrics in the order the lines are echoed
MetricOrder == <<Precision, Recall, F1, NDCG5, NDCG10>>

\* run_evaldir: the lines echoed for eval_batch.results().items()
evaldir_lines(res) ==
    [k \in 1..Len(MetricOrder) |-> <<MetricOrder[k], res[MetricOrder[k]]>>]

EvaldirIdle ==
    /\ docs = <<>> /\ di = 0 /\ ehits = <<>> /\ eval_batch = EvaluationBatch
    /\ eout = <<>> /\ dpc = "idle"

ReadIdle == lastres = results(EvaluationBatch) /\ nreads = 0 /\ readAt = 0

InitEvaldir ==
    /\ docs \in SeqsUpTo(DocKinds, MaxDocs)
    /\ di = 0
    /\ ehits = <<>>
    /\ eval_batch = EvaluationBatch
    /\ eout = <<>>
    /\ dpc = "loop"

\* one iteration of the loop of run_evaldir
EvaldirDoc ==
    /\ dpc = "loop"
    /\ di < Len(docs)
    /\ ehits' = evaldir_hits(docs[di + 1], limit, threshold)
    /\ eval_batch' = evaldir_iteration(eval_batch, docs[di + 1], limit, threshold)
    /\ di' = di + 1
    /\ nread' = nread + 1
    /\ UNCHANGED <<docs, eout, dpc, optVars, analyzeVars, readVars, shardVars>>
    /\ UNCHANGED <<corpusVars, batchVars, mistralVars, ensembleVars, sweepVars>>

\* the end of run_evaldir: the results are read and echoed
EvaldirFinish ==
    /\ dpc = "loop"
    /\ di = Len(docs)
    /\ eval_batch' = results_call(eval_batch).state
    /\ eout' = evaldir_lines(results_call(eval_batch).value)
    /\ dpc' = "done"
    /\ UNCHANGED <<docs, di, ehits, optVars, analyzeVars, readVars, shardVars>>
    /\ UNCHANGED <<corpusVars, batchVars, mistralVars, ensembleVars, sweepVars, ioVars>>

\* a caller reads results() of the batch, between or after evaluate calls
ReadResults ==
    /\ dpc \in {"loop", "done"}
    /\ nreads < MaxReads
    /\ eval_batch' = results_call(eval_batch).state
    /\ lastres' = results_call(eval_batch).value
    /\ nreads' = nreads + 1
    /\ readAt' = di
    /\ UNCHANGED <<docs, di, ehits, eout, dpc, optVars, analyzeVars, shardVars>>
    /\ UNCHANGED <<corpusVars, batchVars, mistralVars, ensembleVars, sweepVars, ioVars>>

-----------------------------------------------------------------------------
(* annif eval *)

\* mutant: the batch evaluates the analysis as it came from the project
run_eval_unfiltered(doc, lim, thr) ==
    LET hits == HitFilter(doc.hits, lim, thr)
        b == evaluate(EvaluationBatch, doc.hits, doc.gold)
    IN [hits |-> hits, batch |-> b, lines |-> evaldir_lines(results(b))]

\* run_eval: the text of standard input is analyzed, filtered and evaluated
\* against the subjects of the subject file in a new EvaluationBatch
run_eval(doc, lim, thr) ==
    LET hits == HitFilter(doc.hits, lim, thr)
        b == evaluate(EvaluationBatch, hits, doc.gold)
    IN [hits |-> hits, batch |-> b, lines |-> evaldir_lines(results(b))]

\* the document of run_eval: any analysis with any gold subjects
InitEval ==
    /\ docs \in {<<[hits |-> h, gold |-> g]>> :
                    h \in AnalysisSets, g \in SUBSET Subjects}
    /\ di = 0
    /\ ehits = <<>>
    /\ eval_batch = EvaluationBatch
    /\ eout = <<>>
    /\ dpc = "eval"

RunEval ==
    /\ dpc = "eval"
    /\ ehits' = run_eval(docs[1], limit, threshold).hits
    /\ eval_batch' = run_eval(docs[1], limit, threshold).batch
    /\ eout' = run_eval(docs[1], limit, threshold).lines
    /\ di' = 1
    /\ dpc' = "done"
    /\ UNCHANGED <<docs, optVars, analyzeVars, readVars, shardVars>>
    /\ UNCHANGED <<corpusVars, batchVars, mistralVars, ensembleVars, sweepVars, ioVars>>

-----------------------------------------------------------------------------
(* The --limit and --threshold options of annif analyze and annif evaldir *)

\* values the options may carry: click converts them to numbers and checks
\* no range
LimitOptions == {-1, 0, 1, 2}
ThresholdOptions == {-1, 0, 10}

\* HitFilter(limit, threshold) accepts limit >= 1 and threshold >= 0.0 and
\* answers anything else with a configuration error (section 4.3)
hit_filter_valid(lim, thr) == lim >= 1 /\ thr >= 0

\* mutant: run_analyze goes on with whatever the options carry
AnalyzeConstructUnchecked ==
    /\ apc = "start"
    /\ apc' = "ready"
    /\ UNCHANGED <<ahits, aout, optVars, evaldirVars, readVars, shardVars>>
    /\ UNCHANGED <<corpusVars, batchVars, mistralVars, ensembleVars, sweepVars, ioVars>>

\* run_analyze up to hit_filter = HitFilter(limit, threshold)
AnalyzeConstruct ==
    /\ apc = "start"
    /\ apc' = IF hit_filter_valid(limit, threshold) THEN "ready" ELSE "error"
    /\ UNCHANGED <<ahits, aout, optVars, evaldirVars, readVars, shardVars>>
    /\ UNCHANGED <<corpusVars, batchVars, mistralVars, ensembleVars, sweepVars, ioVars>>

\* run_evaldir up to hit_filter = HitFilter(limit=limit, threshold=threshold)
EvaldirConstruct ==
    /\ dpc = "start"
    /\ dpc' = IF hit_filter_valid(limit, threshold) THEN "loop" ELSE "error"
    /\ UNCHANGED <<docs, di, ehits, eval_batch, eout>>
    /\ UNCHANGED <<optVars, analyzeVars, readVars, shardVars>>
    /\ UNCHANGED <<corpusVars, batchVars, mistralVars, ensembleVars, sweepVars, ioVars>>

\* a command line with any option values: annif analyze or annif evaldir
InitOptions ==
    /\ limit \in LimitOptions /\ threshold \in ThresholdOptions
    /\ \/ /\ ahits \in AnalysisSets /\ aout = <<>> /\ apc = "start"
          /\ EvaldirIdle
       \/ /\ AnalyzeIdle
          /\ docs \in SeqsUpTo(DocKinds, MaxDocs)
          /\ di = 0 /\ ehits = <<>> /\ eval_batch = EvaluationBatch
          /\ eout = <<>> /\ dpc = "start"

-----------------------------------------------------------------------------
(* annif evaldir on a project with the ensemble backend *)

\* a weight token that float() rejects
BadWeight == "abc"

\* the 'sources' parameter of the project: entries with a weight, without
\* one, or with a weight that is no number
SourceParams ==
    SeqsUpTo([project : Projects, weight : {"1", NoWeight, BadWeight}],
             MaxSources) \ {<<>>}

\* annif.util.parse_sources answers an entry it cannot parse with a
\* configuration error (section 6)
parse_sources_fails(param) ==
    \E i \in 1..Len(param) : param[i].weight = BadWeight

\* the documents of the directory: what each source project's analyze
\* returns for the text, and the gold subjects of the subject file
EnsembleDocKinds ==
    { [analysis |-> [p \in Projects |->
                        IF p = "p1" THEN <<SubjectSuggestion(1, 18)>>
                        ELSE <<SubjectSuggestion(2, 10), SubjectSuggestion(1, 10)>>],
       gold |-> {1}],
      [analysis |-> [p \in Projects |->
                        IF p = "p1" THEN <<>>
                        ELSE <<SubjectSuggestion(2, 18)>>],
       gold |-> {1, 2}] }

InitEnsembleEval ==
    /\ sources \in SourceParams
    /\ analysis = [p \in Projects |-> <<>>] /\ merged = <<>> /\ epc = "idle"
    /\ docs \in SeqsUpTo(EnsembleDocKinds, MaxDocs)
    /\ di = 0 /\ ehits = <<>> /\ eval_batch = EvaluationBatch
    /\ eout = <<>> /\ dpc = "loop"
    /\ nread = 0

\* one iteration of the loop of run_evaldir on an ensemble project: the
\* document file is read, project.analyze calls EnsembleBackend._analyze,
\* which parses params['sources'] before it asks the source projects
EnsembleEvalDoc ==
    /\ dpc = "loop"
    /\ di < Len(docs)
    /\ nread' = nread + 1
    /\ IF parse_sources_fails(sources)
       THEN /\ dpc' = "error"
            /\ UNCHANGED <<analysis, merged, di, ehits, eval_batch>>
       ELSE /\ analysis' = docs[di + 1].analysis
            /\ merged' = ensemble_analyze(docs[di + 1].analysis, sources)
            /\ ehits' = HitFilter(ensemble_analyze(docs[di + 1].analysis, sources),
                                  limit, threshold)
            /\ eval_batch' =
                  evaluate(eval_batch,
                           HitFilter(ensemble_analyze(docs[di + 1].analysis, sources),
                                     limit, threshold),
                           docs[di + 1].gold)
            /\ di' = di + 1
            /\ dpc' = dpc
    /\ UNCHANGED <<sources, epc, docs, eout>>
    /\ UNCHANGED <<optVars, analyzeVars, readVars, shardVars, sweepVars>>
    /\ UNCHANGED <<corpusVars, batchVars, mistralVars>>

-----------------------------------------------------------------------------
(* annif optimize *)

\* range(1, 16) and range(20) of generate_filter_batches
LimitStop == 16
ThresholdSteps == 20

\* the (limit, threshold) keys in the order the nested loops make them; the
\* threshold i * 0.05 is i in units of 0.05
GridKeys ==
    [n \in 1..((LimitStop - 1) * ThresholdSteps) |->
        <<1 + ((n - 1) \div ThresholdSteps), (n - 1) % ThresholdSteps>>]

\* an item of filter_batches: the key, the HitFilter and the EvaluationBatch
\* of the pair; calls counts the evaluate calls the batch received
FilterBatch(key) ==
    [params |-> key,
     hit_filter |-> [limit |-> key[1], threshold |-> key[2]],
     batch |-> EvaluationBatch,
     calls |-> 0]

\* filter_batches[key] = item for the keys in loop order, on an ordered dict:
\* a key has one item, at the position of its first assignment
FillBatches(keys) ==
    LET firsts == SelectSeq([n \in 1..Len(keys) |-> n],
                            LAMBDA n : \A j \in 1..(n - 1) : keys[j] # keys[n])
    IN [k \in 1..Len(firsts) |-> FilterBatch(keys[firsts[k]])]

\* mutant: the thresholds run up to 1.0
generate_filter_batches_upto1 ==
    FillBatches([n \in 1..((LimitStop - 1) * (ThresholdSteps + 1)) |->
                    <<1 + ((n - 1) \div (ThresholdSteps + 1)),
                      (n - 1) % (ThresholdSteps + 1)>>])

\* generate_filter_batches()
generate_filter_batches == FillBatches(GridKeys)

\* hit_filter(hits): the set returned and the state it leaves its argument in
hit_filter_call(f, hits) ==
    [value |-> HitFilter(hits, f.limit, f.threshold), hits |-> hits]

\* the inner loop of run_optimize over the items lo..hi in order, starting
\* with the analysis in state hits (the range is split in halves, the second
\* half continuing from the state the first half left)
RECURSIVE SweepRange(_, _, _, _, _)
SweepRange(fb, hits, gold, lo, hi) ==
    IF lo > hi THEN [batches |-> <<>>, hits |-> hits]
    ELSE IF lo = hi THEN
        LET call == hit_filter_call(fb[lo].hit_filter, hits)
        IN [batches |-> <<[fb[lo] EXCEPT
                             !.batch = evaluate(@, call.value, gold),
                             !.calls = @ + 1]>>,
            hits |-> call.hits]
    ELSE LET mid == (lo + hi) \div 2
             left == SweepRange(fb, hits, gold, lo, mid)
             right == SweepRange(fb, left.hits, gold, mid + 1, hi)
         IN [batches |-> left.batches \o right.batches, hits |-> right.hits]

\* the inner loop with every filter given what the filter before it returned
RECURSIVE SweepChained(_, _, _, _, _)
SweepChained(fb, hits, gold, lo, hi) ==
    IF lo > hi THEN [batches |-> <<>>, hits |-> hits]
    ELSE IF lo = hi THEN
        LET call == hit_filter_call(fb[lo].hit_filter, hits)
        IN [batches |-> <<[fb[lo] EXCEPT
                             !.batch = evaluate(@, call.value, gold),
                             !.calls = @ + 1]>>,
            hits |-> call.value]
    ELSE LET mid == (lo + hi) \div 2
             left == SweepChained(fb, hits, gold, lo, mid)
             right == SweepChained(fb, left.hits, gold, mid + 1, hi)
         IN [batches |-> left.batches \o right.batches, hits |-> right.hits]

\* mutant: each pair filters the result of the pair before it
optimize_document_chained(fb, doc) ==
    SweepChained(fb, doc.hits, doc.gold, 1, Len(fb))

\* mutant: every pair is filtered with the filter of the first pair
optimize_document_firstfilter(fb, doc) ==
    SweepRange([k \in 1..Len(fb) |-> [fb[k] EXCEPT !.hit_filter = fb[1].hit_filter]],
               doc.hits, doc.gold, 1, Len(fb))

\* run_optimize: one document of the directory is analyzed and fed to every
\* (hit_filter, batch) of filter_batches
optimize_document(fb, doc) == SweepRange(fb, doc.hits, doc.gold, 1, Len(fb))

\* score > best on exact fractions
RatGT(a, b) ==
    LET g == GCD(a[2], b[2])
    IN a[1] * (b[2] \div g) > b[1] * (a[2] \div g)

\* best_params without an entry for a metric
NoParams == <<0, 0>>

\* collections.defaultdict(float) and {} before the selection loop
NoBest == [scores |-> [m \in Metrics |-> Zero], params |-> [m \in Metrics |-> NoParams]]

\* the table line of a pair: limit, threshold, precision, recall, F1
TableLine(params_, res) ==
    <<params_[1], params_[2], res[Precision], res[Recall], res[F1]>>

\* if score > best_scores[metric]: best_scores[metric] = score;
\* best_params[metric] = params
select_metric(params_, res, m, best) ==
    IF RatGT(res[m], best.scores[m])
    THEN [scores |-> [best.scores EXCEPT ![m] = res[m]],
          params |-> [best.params EXCEPT ![m] = params_]]
    ELSE best

\* for metric, score in results.items(), from the k-th metric on
RECURSIVE select_item(_, _, _, _)
select_item(params_, res, k, best) ==
    IF k > Len(MetricOrder) THEN best
    ELSE select_item(params_, res, k + 1,
                     select_metric(params_, res, MetricOrder[k], best))

\* the loop of run_optimize over the items lo..hi of filter_batches.items()
\* in order: the table lines echoed and the best scores and parameters (the
\* range is split in halves, the second half continuing from the first)
RECURSIVE SelectRange(_, _, _, _)
SelectRange(fb, lo, hi, best) ==
    IF lo > hi THEN [lines |-> <<>>, best |-> best]
    ELSE IF lo = hi THEN
        [lines |-> <<TableLine(fb[lo].params, results(fb[lo].batch))>>,
         best |-> select_item(fb[lo].params, results(fb[lo].batch), 1, best)]
    ELSE LET mid == (lo + hi) \div 2
             left == SelectRange(fb, lo, mid, best)
             right == SelectRange(fb, mid + 1, hi, left.best)
         IN [lines |-> left.lines \o right.lines, best |-> right.best]

\* run_optimize: the table echoed, best_scores and best_params
optimize_select(fb) == SelectRange(fb, 1, Len(fb), NoBest)

\* the "Best ..." lines: best_params[metric] of a metric without an entry
\* raises KeyError, which ends the command
RECURSIVE BestLines(_, _)
BestLines(best, k) ==
    IF k > Len(MetricOrder) \/ best.params[MetricOrder[k]] = NoParams THEN <<>>
    ELSE <<<<MetricOrder[k], best.scores[MetricOrder[k]],
             best.params[MetricOrder[k]][1], best.params[MetricOrder[k]][2]>>>>
         \o BestLines(best, k + 1)

IoIdle == nread = 0

SweepIdle ==
    /\ filter_batches = <<>> /\ ohits = <<>> /\ oi = 0
    /\ best_scores = NoBest.scores /\ best_params = NoBest.params
    /\ oout = <<>> /\ opc = "idle"

InitSweep ==
    /\ docs \in SeqsUpTo(DocKinds, MaxDocs - 1)
    /\ di = 0 /\ ehits = <<>> /\ eval_batch = EvaluationBatch
    /\ eout = <<>> /\ dpc = "idle"
    /\ filter_batches = <<>> /\ ohits = <<>> /\ oi = 0
    /\ best_scores = NoBest.scores /\ best_params = NoBest.params
    /\ oout = <<>> /\ opc = "start"

\* run_optimize up to the loop over the directory
OptimizeStart ==
    /\ opc = "start"
    /\ filter_batches' = generate_filter_batches
    /\ opc' = "loop"
    /\ UNCHANGED <<ohits, oi, best_scores, best_params, oout>>
    /\ UNCHANGED <<optVars, analyzeVars, evaldirVars, readVars, shardVars>>
    /\ UNCHANGED <<corpusVars, batchVars, mistralVars, ensembleVars, ioVars>>

\* one iteration of the loop over the directory
OptimizeDoc ==
    /\ opc = "loop"
    /\ oi < Len(docs)
    /\ LET swept == optimize_document(filter_batches, docs[oi + 1])
       IN /\ filter_batches' = swept.batches
          /\ ohits' = swept.hits
    /\ oi' = oi + 1
    /\ UNCHANGED <<best_scores, best_params, oout, opc>>
    /\ UNCHANGED <<optVars, analyzeVars, evaldirVars, readVars, shardVars>>
    /\ UNCHANGED <<corpusVars, batchVars, mistralVars, ensembleVars, ioVars>>

\* the end of run_optimize: the table, the selection and the summary
OptimizeFinish ==
    /\ opc = "loop"
    /\ oi = Len(docs)
    /\ LET selected == optimize_select(filter_batches)
       IN /\ best_scores' = selected.best.scores
          /\ best_params' = selected.best.params
          /\ oout' = selected.lines \o BestLines(selected.best, 1)
          /\ opc' = IF \E m \in Metrics : selected.best.params[m] = NoParams
                    THEN "error" ELSE "done"
    /\ UNCHANGED <<filter_batches, ohits, oi>>
    /\ UNCHANGED <<optVars, analyzeVars, evaldirVars, readVars, shardVars>>
    /\ UNCHANGED <<corpusVars, batchVars, mistralVars, ensembleVars, ioVars>>

-----------------------------------------------------------------------------
(* Sharded evaluation (section 5) *)

RECURSIVE CombineAll(_, _)
CombineAll(sh, k) ==
    IF k = 0 THEN EvaluationBatch ELSE combine(CombineAll(sh, k - 1), sh[k])

ShardIdle ==
    /\ shards = <<>> /\ sj = 0 /\ combined = EvaluationBatch /\ spc = "idle"

InitShard ==
    /\ shards = [k \in 1..NShards |-> EvaluationBatch]
    /\ sj = 0
    /\ combined = EvaluationBatch
    /\ spc = "map"

\* the next document is evaluated into the batch of shard k
ShardEvaluate(k) ==
    /\ spc = "map"
    /\ sj < Len(docs)
    /\ shards' = [shards EXCEPT ![k] =
                     evaluate(@, HitFilter(docs[sj + 1].hits, limit, threshold),
                              docs[sj + 1].gold)]
    /\ sj' = sj + 1
    /\ UNCHANGED <<combined, spc, optVars, analyzeVars, evaldirVars, readVars>>
    /\ UNCHANGED <<corpusVars, batchVars, mistralVars, ensembleVars, sweepVars, ioVars>>

\* the final reduce step: the shards are combined
ShardReduce ==
    /\ spc = "map"
    /\ sj = Len(docs)
    /\ combined' = CombineAll(shards, NShards)
    /\ spc' = "done"
    /\ UNCHANGED <<shards, sj, optVars, analyzeVars, evaldirVars, readVars>>
    /\ UNCHANGED <<corpusVars, batchVars, mistralVars, ensembleVars, sweepVars, ioVars>>

-----------------------------------------------------------------------------
(* EhriBertBackend *)

\* uri.replace(self.base_uri, 'ehri_terms-'): a URI outside base_uri is left
\* as it is
ehri_tid(uri) ==
    CASE uri = "u1" -> "ehri_terms-1"
      [] uri = "u2" -> "ehri_terms-2"
      [] uri = "u3" -> "ehri_terms-3"
      [] OTHER -> uri

\* self._config.id2label of the fine-tuned model, as the list of its labels:
\* the vocabulary's labels, a model with a label the vocabulary does not
\* have, and a model without one of the vocabulary's labels
ModelConfigs ==
    { <<"ehri_terms-1", "ehri_terms-2", "ehri_terms-3">>,
      <<"ehri_terms-1", "ehri_terms-4", "ehri_terms-3">>,
      <<"ehri_terms-2", "ehri_terms-1">> }

\* sigmoid(logits) for one text, one probability per model label
ProbRows ==
    { <<18, 10, 2>>, <<10, 18, 18>>, <<2, 2, 10>>, <<2, 2, 2>> }

\* self._label_to_uri after initialize
label_to_uri(v) ==
    [t \in {ehri_tid(terms(v)[i][1]) : i \in 1..Len(v)} |->
        LET last == CHOOSE i \in 1..Len(v) :
                        /\ ehri_tid(terms(v)[i][1]) = t
                        /\ \A j \in 1..Len(v) :
                              ehri_tid(terms(v)[j][1]) = t => j <= i
        IN terms(v)[last][1]]

\* self._label_texts after initialize: the labels of the vocabulary that the
\* model's config has
label_texts(v, cfg) ==
    [t \in {ehri_tid(terms(v)[i][1]) : i \in 1..Len(v)} \cap Range(cfg) |->
        LET last == CHOOSE i \in 1..Len(v) :
                        /\ ehri_tid(terms(v)[i][1]) = t
                        /\ \A j \in 1..Len(v) :
                              ehri_tid(terms(v)[j][1]) = t => j <= i
        IN terms(v)[last][2]]

\* sorted(s, key=lambda x: x[2], reverse=True): stable, descending score
RECURSIVE sorted_predictions(_)
sorted_predictions(s) ==
    IF s = <<>> THEN <<>>
    ELSE LET i == CHOOSE i \in 1..Len(s) :
                      /\ \A j \in 1..Len(s) : s[j][3] <= s[i][3]
                      /\ \A j \in 1..(i - 1) : s[j][3] < s[i][3]
         IN <<s[i]>> \o
            sorted_predictions(SubSeq(s, 1, i - 1) \o SubSeq(s, i + 1, Len(s)))

\* the indices with predictions[idx] = 1
ehri_predicted(pr, thr) ==
    Filter([i \in 1..Len(pr) |-> i], LAMBDA idx : pr[idx] >= thr)

\* self._label_texts[predicted_label] raises KeyError for one text
ehri_raises(v, cfg, pr, thr) ==
    \E k \in 1..Len(ehri_predicted(pr, thr)) :
        cfg[ehri_predicted(pr, thr)[k]] \notin DOMAIN label_texts(v, cfg)

\* the body of run_pipeline's loop for one text that does not raise
ehri_text_predictions(v, cfg, pr, thr, num) ==
    LET predicted == ehri_predicted(pr, thr)
        entries ==
            [k \in 1..Len(predicted) |->
                <<label_to_uri(v)[cfg[predicted[k]]],
                  label_texts(v, cfg)[cfg[predicted[k]]],
                  pr[predicted[k]]>>]
        ranked == sorted_predictions(entries)
    IN SubSeq(ranked, 1, Min2(num, Len(ranked)))

\* EhriBertBackend.run_pipeline(texts, params, num); allprobs holds the
\* model's probabilities, one row per text
ehri_run_pipeline(v, cfg, allprobs, p, num) ==
    [k \in 1..Len(allprobs) |->
        ehri_text_predictions(v, cfg, allprobs[k], p.threshold, num)]

EhriIdle ==
    /\ id2label = <<>> /\ probs = <<>> /\ bert_results = <<>>
    /\ bertpc = "idle"

InitEhri ==
    /\ id2label \in ModelConfigs
    /\ probs = <<>>
    /\ bert_results = <<>>
    /\ bertpc = "ready"

\* One call of run_pipeline: the model (a black box) answers with one row of
\* probabilities per text.
EhriRunPipeline ==
    /\ bertpc = "ready"
    /\ \E rows \in [1..Len(texts) -> ProbRows] :
          LET allprobs == [k \in 1..Len(rows) |->
                              SubSeq(rows[k], 1, Len(id2label))]
          IN /\ probs' = allprobs
             /\ IF \E k \in 1..Len(allprobs) :
                      ehri_raises(vocab, id2label, allprobs[k],
                                  params.threshold)
                THEN bert_results' = <<>> /\ bertpc' = "raised"
                ELSE /\ bert_results' =
                            ehri_run_pipeline(vocab, id2label, allprobs,
                                              params, params.limit)
                     /\ bertpc' = "done"
    /\ UNCHANGED <<id2label, dirVars, analyzedirVars, fileVars>>
    /\ UNCHANGED <<batchVars, mistralVars, ensembleVars, cliVars>>

-----------------------------------------------------------------------------
(* DocumentDirectory *)

\* A file name is <<stem, extension>>; the names "1.txt", "2.txt", ... sort
\* by their stem.
Stems == 1..MaxDocs

\* the subject file of a pair that has none
NoneFile == <<0, "None">>

\* what a directory may hold for one stem
DirKinds ==
    { {}, {".txt"}, {".txt", ".tsv"}, {".txt", ".key"},
      {".txt", ".tsv", ".key"}, {".tsv"} }

FileContent(ext) == <<[uri |-> ext, label |-> "content", score |-> 0]>>

DirFileSystems ==
    { [name \in UNION {{<<st, ext>> : ext \in k[st]} : st \in Stems} |->
          FileContent(name[2])] : k \in [Stems -> DirKinds] }

\* glob.glob(os.path.join(self.path, '*.txt'))
glob_txt(f) == {name \in DOMAIN f : name[2] = ".txt"}

\* sorted(names)
RECURSIVE sorted(_)
sorted(S) ==
    IF S = {} THEN <<>>
    ELSE LET first == CHOOSE n \in S : \A o \in S : n[1] <= o[1]
         IN <<first>> \o sorted(S \ {first})

\* re.sub(r'\.txt$', ext, filename)
re_sub(filename, ext) ==
    IF filename[2] = ".txt" THEN <<filename[1], ext>> ELSE filename

\* mutant: the .key file is looked for before the .tsv file
iter_step_keyfirst(f, filename, req) ==
    IF re_sub(filename, ".key") \in DOMAIN f
    THEN << <<filename, re_sub(filename, ".key")>> >>
    ELSE IF re_sub(filename, ".tsv") \in DOMAIN f
    THEN << <<filename, re_sub(filename, ".tsv")>> >>
    ELSE IF ~req THEN << <<filename, NoneFile>> >>
    ELSE <<>>

\* mutant: require_subjects is ignored
iter_step_always(f, filename, req) ==
    IF re_sub(filename, ".tsv") \in DOMAIN f
    THEN << <<filename, re_sub(filename, ".tsv")>> >>
    ELSE IF re_sub(filename, ".key") \in DOMAIN f
    THEN << <<filename, re_sub(filename, ".key")>> >>
    ELSE << <<filename, NoneFile>> >>

\* the body of the loop of __iter__: the pairs yielded for one file name
iter_step(f, filename, req) ==
    IF re_sub(filename, ".tsv") \in DOMAIN f
    THEN << <<filename, re_sub(filename, ".tsv")>> >>
    ELSE IF re_sub(filename, ".key") \in DOMAIN f
    THEN << <<filename, re_sub(filename, ".key")>> >>
    ELSE IF ~req THEN << <<filename, NoneFile>> >>
    ELSE <<>>

DirIdle ==
    /\ fs = <<>> /\ require_subjects = FALSE /\ globbed = <<>>
    /\ yielded = <<>> /\ ipc = "idle"

InitDir ==
    /\ fs \in DirFileSystems
    /\ require_subjects \in BOOLEAN
    /\ globbed = <<>>
    /\ yielded = <<>>
    /\ ipc = "start"

\* the first next() of the generator evaluates sorted(glob.glob(...))
DirGlob ==
    /\ ipc = "start"
    /\ globbed' = sorted(glob_txt(fs))
    /\ ipc' = "iter"
    /\ UNCHANGED <<fs, require_subjects, yielded>>
    /\ UNCHANGED <<ehriVars, analyzedirVars, fileVars>>
    /\ UNCHANGED <<batchVars, mistralVars, ensembleVars, cliVars>>

\* one iteration of the loop of __iter__
DirNext ==
    /\ ipc = "iter"
    /\ globbed # <<>>
    /\ yielded' = yielded \o iter_step(fs, Head(globbed), require_subjects)
    /\ globbed' = Tail(globbed)
    /\ UNCHANGED <<fs, require_subjects, ipc>>
    /\ UNCHANGED <<ehriVars, analyzedirVars, fileVars>>
    /\ UNCHANGED <<batchVars, mistralVars, ensembleVars, cliVars>>

\* the loop of __iter__ ends
DirStop ==
    /\ ipc = "iter"
    /\ globbed = <<>>
    /\ ipc' = "done"
    /\ UNCHANGED <<fs, require_subjects, globbed, yielded>>
    /\ UNCHANGED <<ehriVars, analyzedirVars, fileVars>>
    /\ UNCHANGED <<batchVars, mistralVars, ensembleVars, cliVars>>

-----------------------------------------------------------------------------
(* annif analyzedir *)

\* --suffix
Suffix == ".annif"

\* what an output file of an earlier run holds
OldLines == FileContent(Suffix)

\* the texts a document file may hold
DocTexts == {"text1", "text2"}

\* project.analyze(text, backend_params)
project_analyze(text) ==
    IF text = "text1"
    THEN <<SubjectSuggestion(1, 18), SubjectSuggestion(2, 10),
           SubjectSuggestion(3, 6)>>
    ELSE <<SubjectSuggestion(2, 18), SubjectSuggestion(1, 10)>>

\* what a directory may hold for one stem: nothing, a document, a document
\* with the output file of an earlier run
AnalyzedirKinds ==
    {<<>>} \cup {<<t>> : t \in DocTexts} \cup {<<t, "out">> : t \in DocTexts}

AnalyzedirFileSystems ==
    { [name \in {<<st, ".txt">> : st \in {x \in Stems : Len(k[x]) >= 1}}
                \cup {<<st, Suffix>> : st \in {x \in Stems : Len(k[x]) = 2}}
        |-> IF name[2] = ".txt" THEN k[name[1]][1] ELSE OldLines]
      : k \in [Stems -> AnalyzedirKinds] }

\* mutant: an existing output file is overwritten without --force
analyzedir_doc_overwrite(f, v, docfilename, frc, lim, thr) ==
    LET text == f[docfilename]
        subjectfilename == re_sub(docfilename, Suffix)
    IN [fs |-> (subjectfilename :>
                    run_analyze(v, project_analyze(text), lim, thr)) @@ f,
        analyzed |-> <<docfilename>>,
        echo |-> <<>>, stop |-> FALSE]

\* mutant: the loop ends at the first existing output file
analyzedir_doc_stop(f, v, docfilename, frc, lim, thr) ==
    LET text == f[docfilename]
        subjectfilename == re_sub(docfilename, Suffix)
    IN IF subjectfilename \in DOMAIN f /\ ~frc
       THEN [fs |-> f, analyzed |-> <<>>,
             echo |-> <<subjectfilename>>, stop |-> TRUE]
       ELSE [fs |-> (subjectfilename :>
                        run_analyze(v, project_analyze(text), lim, thr)) @@ f,
             analyzed |-> <<docfilename>>,
             echo |-> <<>>, stop |-> FALSE]

\* the body of the loop of run_analyzedir for one document: the file system
\* after it, the documents analyzed and the lines echoed
analyzedir_doc(f, v, docfilename, frc, lim, thr) ==
    LET text == f[docfilename]
        subjectfilename == re_sub(docfilename, Suffix)
    IN IF subjectfilename \in DOMAIN f /\ ~frc
       THEN [fs |-> f, analyzed |-> <<>>,
             echo |-> <<subjectfilename>>, stop |-> FALSE]
       ELSE [fs |-> (subjectfilename :>
                        run_analyze(v, project_analyze(text), lim, thr)) @@ f,
             analyzed |-> <<docfilename>>,
             echo |-> <<>>, stop |-> FALSE]

AnalyzedirIdle ==
    /\ force = FALSE /\ analyzed = <<>> /\ adout = <<>> /\ adpc = "idle"

InitAnalyzedir ==
    /\ fs \in AnalyzedirFileSystems
    /\ require_subjects = FALSE
    /\ globbed = <<>>
    /\ yielded = <<>>
    /\ ipc = "idle"
    /\ force \in BOOLEAN
    /\ analyzed = <<>>
    /\ adout = <<>>
    /\ adpc = "start"

\* run_analyzedir up to the first iteration: the generator evaluates
\* sorted(glob.glob(...))
AnalyzedirStart ==
    /\ adpc = "start"
    /\ globbed' = sorted(glob_txt(fs))
    /\ adpc' = "loop"
    /\ UNCHANGED <<fs, require_subjects, yielded, ipc>>
    /\ UNCHANGED <<force, analyzed, adout>>
    /\ UNCHANGED <<ehriVars, fileVars>>
    /\ UNCHANGED <<batchVars, mistralVars, ensembleVars, cliVars>>

\* one iteration of the loop of run_analyzedir
AnalyzedirDoc ==
    /\ adpc = "loop"
    /\ globbed # <<>>
    /\ LET pair == iter_step(fs, Head(globbed), require_subjects)[1]
           r == analyzedir_doc(fs, vocab, pair[1], force, limit, threshold)
       IN /\ fs' = r.fs
          /\ analyzed' = analyzed \o r.analyzed
          /\ adout' = adout \o r.echo
          /\ yielded' = Append(yielded, pair)
          /\ globbed' = IF r.stop THEN <<>> ELSE Tail(globbed)
    /\ UNCHANGED <<require_subjects, ipc, force, adpc>>
    /\ UNCHANGED <<ehriVars, fileVars>>
    /\ UNCHANGED <<batchVars, mistralVars, ensembleVars, cliVars>>

\* the loop of run_analyzedir ends
AnalyzedirFinish ==
    /\ adpc = "loop"
    /\ globbed = <<>>
    /\ adpc' = "done"
    /\ UNCHANGED <<dirVars, force, analyzed, adout>>
    /\ UNCHANGED <<ehriVars, fileVars>>
    /\ UNCHANGED <<batchVars, mistralVars, ensembleVars, cliVars>>

-----------------------------------------------------------------------------
(* DocumentFile *)

\* the characters str.split() and str.rstrip() take for whitespace
Whitespace == {" ", "\t", "\n"}

\* A line is a sequence of characters.
LineSet ==
    { <<"a", "\t", "<", "u", ">", "\n">>,
      <<"a", " ", "<", "u", ">", "\n">>,
      <<"a", "\t", "<", "u", ">", "\t", "v", "\n">>,
      <<"\t", "\n">>,
      <<"\n">>,
      <<"b", " ", "a", "\t", "u", " ", "<", "v", ">">> }

HasTab(line) == \E i \in 1..Len(line) : line[i] = "\t"

\* str.split(): the maximal runs of non-whitespace characters
RECURSIVE split(_)
split(s) ==
    IF s = <<>> THEN <<>>
    ELSE IF Head(s) \in Whitespace THEN split(Tail(s))
    ELSE LET n == IF \E i \in 1..Len(s) : s[i] \in Whitespace
                  THEN (CHOOSE i \in 1..Len(s) :
                           /\ s[i] \in Whitespace
                           /\ \A j \in 1..(i - 1) : s[j] \notin Whitespace) - 1
                  ELSE Len(s)
         IN <<SubSeq(s, 1, n)>> \o split(SubSeq(s, n + 1, Len(s)))

\* annif.util.cleanup_uri: the angle brackets around a URI are removed
cleanup_uri(uri) ==
    IF Len(uri) >= 2 /\ Head(uri) = "<" /\ uri[Len(uri)] = ">"
    THEN SubSeq(uri, 2, Len(uri) - 1)
    ELSE uri

\* self._create_document(text=..., uris=..., labels=...)
create_document(text, uris, labels) ==
    [text |-> text, uris |-> uris, labels |-> labels]

\* str.rstrip()
RECURSIVE rstrip(_)
rstrip(s) ==
    IF s # <<>> /\ s[Len(s)] \in Whitespace
    THEN rstrip(SubSeq(s, 1, Len(s) - 1)) ELSE s

\* mutant: the line is split at its last tab
parse_tsv_line_lasttab(line) ==
    IF HasTab(line)
    THEN LET tab == CHOOSE i \in 1..Len(line) :
                        /\ line[i] = "\t"
                        /\ \A j \in (i + 1)..Len(line) : line[j] # "\t"
             text == SubSeq(line, 1, tab - 1)
             uris == SubSeq(line, tab + 1, Len(line))
             subjects == [k \in 1..Len(split(uris)) |->
                             cleanup_uri(split(uris)[k])]
         IN [docs |-> <<create_document(text, subjects, <<>>)>>,
             warnings |-> <<>>]
    ELSE [docs |-> <<>>, warnings |-> <<rstrip(line)>>]

\* mutant: a line without a tab yields a document without subjects
parse_tsv_line_lenient(line) ==
    IF HasTab(line)
    THEN LET tab == CHOOSE i \in 1..Len(line) :
                        /\ line[i] = "\t"
                        /\ \A j \in 1..(i - 1) : line[j] # "\t"
             text == SubSeq(line, 1, tab - 1)
             uris == SubSeq(line, tab + 1, Len(line))
             subjects == [k \in 1..Len(split(uris)) |->
                             cleanup_uri(split(uris)[k])]
         IN [docs |-> <<create_document(text, subjects, <<>>)>>,
             warnings |-> <<>>]
    ELSE [docs |-> <<create_document(rstrip(line), <<>>, <<>>)>>,
          warnings |-> <<>>]

\* _parse_tsv_line(line): the documents yielded and the warnings logged;
\* line.split('\t', maxsplit=1) splits at the first tab, and text_limit is
\* None, so that text[:self.text_limit] is the whole text
parse_tsv_line(line) ==
    IF HasTab(line)
    THEN LET tab == CHOOSE i \in 1..Len(line) :
                        /\ line[i] = "\t"
                        /\ \A j \in 1..(i - 1) : line[j] # "\t"
             text == SubSeq(line, 1, tab - 1)
             uris == SubSeq(line, tab + 1, Len(line))
             subjects == [k \in 1..Len(split(uris)) |->
                             cleanup_uri(split(uris)[k])]
         IN [docs |-> <<create_document(text, subjects, <<>>)>>,
             warnings |-> <<>>]
    ELSE [docs |-> <<>>, warnings |-> <<rstrip(line)>>]

FileIdle ==
    /\ lines = <<>> /\ li = 0 /\ fdocs = <<>> /\ warnings = <<>>
    /\ fpc = "idle"

InitFile ==
    /\ lines \in SeqsUpTo(LineSet, MaxLines)
    /\ li = 0
    /\ fdocs = <<>>
    /\ warnings = <<>>
    /\ fpc = "read"

\* one iteration of the loop of DocumentFile.documents
FileLine ==
    /\ fpc = "read"
    /\ li < Len(lines)
    /\ LET r == parse_tsv_line(lines[li + 1])
       IN /\ fdocs' = fdocs \o r.docs
          /\ warnings' = warnings \o r.warnings
    /\ li' = li + 1
    /\ UNCHANGED <<lines, fpc>>
    /\ UNCHANGED <<ehriVars, dirVars, analyzedirVars>>
    /\ UNCHANGED <<batchVars, mistralVars, ensembleVars, cliVars>>

\* the file is exhausted
FileEnd ==
    /\ fpc = "read"
    /\ li = Len(lines)
    /\ fpc' = "done"
    /\ UNCHANGED <<lines, li, fdocs, warnings>>
    /\ UNCHANGED <<ehriVars, dirVars, analyzedirVars>>
    /\ UNCHANGED <<batchVars, mistralVars, ensembleVars, cliVars>>

CorpusIdle == EhriIdle /\ DirIdle /\ AnalyzedirIdle /\ FileIdle

-----------------------------------------------------------------------------
(* Specifications *)

OptIdle == limit = 1 /\ threshold = 0
InitOpt == limit \in Limits /\ threshold \in Thresholds

CliIdle ==
    /\ OptIdle /\ AnalyzeIdle /\ EvaldirIdle /\ ReadIdle /\ ShardIdle
    /\ SweepIdle /\ IoIdle

VocabIdle ==
    /\ texts = <<>> /\ params = [limit |-> 1, threshold |-> 0]
    /\ zsres = <<>> /\ batch = <<>> /\ bpc = "idle"

\* a batch call on a transformer backend
Init == InitBatch /\ MistralIdle /\ EnsembleIdle /\ CliIdle /\ CorpusIdle
Next == SuggestBatch
Spec == Init /\ [][Next]_vars

\* a call on the Mistral backend
InitM ==
    /\ CorpusIdle
    /\ vocab \in Vocabs /\ VocabIdle
    /\ InitMistral /\ EnsembleIdle /\ CliIdle
NextM == MistralSuggest
SpecMistral == InitM /\ [][NextM]_vars

\* a call on the ensemble backend
InitE == BatchIdle /\ MistralIdle /\ InitEnsemble /\ CliIdle /\ CorpusIdle
NextE == EnsembleAnalyze
SpecEnsemble == InitE /\ [][NextE]_vars

\* any backend call
InitS == Init \/ InitM \/ InitE
NextS == SuggestBatch \/ MistralSuggest \/ EnsembleAnalyze
SpecSuggest == InitS /\ [][NextS]_vars

\* annif analyze
InitA ==
    /\ CorpusIdle
    /\ vocab \in Vocabs /\ VocabIdle
    /\ MistralIdle /\ EnsembleIdle
    /\ InitOpt /\ InitAnalyze /\ EvaldirIdle /\ ReadIdle /\ ShardIdle
    /\ SweepIdle
    /\ IoIdle
NextA == RunAnalyze
SpecAnalyze == InitA /\ [][NextA]_vars

\* annif evaldir
InitD ==
    /\ CorpusIdle
    /\ BatchIdle /\ MistralIdle /\ EnsembleIdle
    /\ InitOpt /\ AnalyzeIdle /\ InitEvaldir /\ ReadIdle /\ ShardIdle
    /\ SweepIdle
    /\ IoIdle
NextD == EvaldirDoc \/ EvaldirFinish
SpecEvaldir == InitD /\ [][NextD]_vars

\* annif eval
InitV ==
    /\ CorpusIdle
    /\ BatchIdle /\ MistralIdle /\ EnsembleIdle
    /\ InitOpt /\ AnalyzeIdle /\ InitEval /\ ReadIdle /\ ShardIdle
    /\ SweepIdle
    /\ IoIdle
NextV == RunEval
SpecEval == InitV /\ [][NextV]_vars

\* an EvaluationBatch fed by annif evaldir and read by its callers
NextR == EvaldirDoc \/ EvaldirFinish \/ ReadResults
SpecAccumulator == InitD /\ [][NextR]_vars

\* annif analyze and annif evaldir with any --limit and --threshold
InitP ==
    /\ CorpusIdle
    /\ vocab \in Vocabs /\ VocabIdle
    /\ MistralIdle /\ EnsembleIdle
    /\ InitOptions /\ ReadIdle /\ ShardIdle /\ SweepIdle
    /\ IoIdle
NextP ==
    \/ AnalyzeConstruct \/ RunAnalyze
    \/ EvaldirConstruct \/ EvaldirDoc \/ EvaldirFinish
SpecOptions == InitP /\ [][NextP]_vars

\* annif evaldir on an ensemble project
InitEE ==
    /\ CorpusIdle
    /\ BatchIdle /\ MistralIdle
    /\ InitOpt /\ AnalyzeIdle /\ ReadIdle /\ ShardIdle /\ SweepIdle
    /\ InitEnsembleEval
NextEE == EnsembleEvalDoc \/ EvaldirFinish
SpecEnsembleEval == InitEE /\ [][NextEE]_vars

\* annif optimize
InitO ==
    /\ CorpusIdle
    /\ BatchIdle /\ MistralIdle /\ EnsembleIdle
    /\ OptIdle /\ AnalyzeIdle /\ ReadIdle /\ ShardIdle
    /\ InitSweep
    /\ IoIdle
NextO == OptimizeStart \/ OptimizeDoc \/ OptimizeFinish
SpecOptimize == InitO /\ [][NextO]_vars

\* the documents of a directory evaluated in shards
InitSh ==
    /\ CorpusIdle
    /\ BatchIdle /\ MistralIdle /\ EnsembleIdle
    /\ InitOpt /\ AnalyzeIdle /\ ReadIdle
    /\ docs \in SeqsUpTo(DocKinds, MaxDocs)
    /\ di = 0 /\ ehits = <<>> /\ eval_batch = EvaluationBatch
    /\ eout = <<>> /\ dpc = "idle"
    /\ InitShard
    /\ SweepIdle
    /\ IoIdle
NextSh == (\E k \in 1..NShards : ShardEvaluate(k)) \/ ShardReduce
SpecShard == InitSh /\ [][NextSh]_vars

-----------------------------------------------------------------------------
(* Properties of the suggestion batch of a transformer backend *)

\* the suggestion set that the pipeline's k-th result stands for
PipelineEntry(k) ==
    LET sug == suggestions(vocab, zsres[k], params.threshold, params.limit)
    IN Normalize([j \in 1..Len(sug) |->
                     make_suggestion(vocab, sug[j][1], sug[j][3])])

\* how many of the texts 1..i are non-empty
NonEmptyRank(i) == Cardinality({j \in 1..i : Strip(texts[j]) # <<>>})

\* C1: _suggest_batch returns exactly one entry per input text, in input
\* order: the entry of an empty or whitespace-only text is empty, the entry
\* of the k-th non-empty text is the pipeline's k-th result.
C1_OneEntryPerText ==
    bpc = "done" =>
        /\ Len(batch) = Len(texts)
        /\ \A i \in 1..Len(texts) :
              IF Strip(texts[i]) = <<>>
              THEN batch[i] = <<>>
              ELSE batch[i] = PipelineEntry(NonEmptyRank(i))

\* a whitespace-only text between two non-empty texts with different results
C1_Witness ==
    /\ bpc = "done"
    /\ Len(texts) = 3
    /\ Strip(texts[1]) # <<>> /\ texts[2] = <<" ">> /\ Strip(texts[3]) # <<>>
    /\ batch[1] # <<>> /\ batch[2] = <<>> /\ batch[3] # <<>>
    /\ batch[1] # batch[3]

-----------------------------------------------------------------------------
(* Properties of the weighted source merger *)

\* the suggestion set of the i-th source and its weight
InputSet(i) == analysis[sources[i].project]
InputWeight(i) == parse_weight(sources[i].weight)

InputSubjects ==
    UNION {{InputSet(i)[j].subject_id : j \in 1..Len(InputSet(i))} :
              i \in 1..Len(sources)}

RECURSIVE SparseSum(_, _)
SparseSum(sid, i) ==
    IF i = 0 THEN 0
    ELSE SparseSum(sid, i - 1) + ScoreOf(InputSet(i), sid) * InputWeight(i)

WithoutSource(i) ==
    SubSeq(sources, 1, i - 1) \o SubSeq(sources, i + 1, Len(sources))

\* C5: merging with a source of weight 0 gives the same set (subjects,
\* scores, order) as merging without that source.
C5_ZeroWeightIsOmission ==
    epc = "done" =>
        \A i \in 1..Len(sources) :
            InputWeight(i) = 0 =>
                merged = ensemble_analyze(analysis, WithoutSource(i))

-----------------------------------------------------------------------------
(* The sort invariant *)

IsSuggestionSet(s) ==
    \A i, j \in 1..Len(s) :
        i < j => s[i].score >= s[j].score /\ s[i].subject_id # s[j].subject_id

\* C7: every suggestion set of a backend call (transformer batch, Mistral)
\* or of merging has non-increasing scores and no subject twice.
C7_SortInvariant ==
    /\ bpc = "done" => \A i \in 1..Len(batch) : IsSuggestionSet(batch[i])
    /\ mpc = "done" => IsSuggestionSet(msug)
    /\ epc = "done" => IsSuggestionSet(merged)

\* the Mistral answer names the same subject twice
C7_Witness ==
    /\ mpc = "done"
    /\ \E i, j \in 1..Len(mraw) : i # j /\ mraw[i].subject_id = mraw[j].subject_id
    /\ Len(msug) = 1

-----------------------------------------------------------------------------
(* Properties of the hit filter *)

ScoresOf(hits) == [i \in 1..Len(hits) |-> hits[i].score]

\* C2: no echoed suggestion of annif analyze has a score less than or equal
\* to the threshold; the scores 0.9, 0.5, 0.3 with threshold 0.5 leave 0.9.
C2_ThresholdStrict ==
    apc = "done" =>
        /\ \A k \in 1..Len(aout) : aout[k].score > threshold
        /\ (threshold = 10 /\ ScoresOf(ahits) = <<18, 10, 6>>) =>
               ScoresOf(aout) = <<18>>

\* the scores 0.9, 0.5, 0.3 filtered with threshold 0.5
C2_Witness ==
    /\ apc = "done"
    /\ threshold = 10
    /\ ScoresOf(ahits) = <<18, 10, 6>>
    /\ Len(aout) = 1 /\ aout[1].score = 18

\* the positions of the analysis of the latest document that pass the
\* threshold
PassingPositions ==
    {i \in 1..Len(docs[di].hits) : docs[di].hits[i].score > threshold}

\* C3: the hits evaluated by annif evaldir are at most `limit` many, and
\* they are the first min(limit, m) of the m suggestions of the analysis
\* that pass the threshold, in their order.
C3_LimitPrefix ==
    di >= 1 =>
        /\ Len(ehits) <= limit
        /\ Len(ehits) = Min2(limit, Cardinality(PassingPositions))
        /\ \A k \in 1..Len(ehits) :
              \E i \in PassingPositions :
                  /\ Cardinality({j \in PassingPositions : j < i}) = k - 1
                  /\ ehits[k] = docs[di].hits[i]

\* an analysis of three suggestions filtered with limit 2 and threshold 0
C3_Witness ==
    /\ di >= 1
    /\ Len(docs[di].hits) = 3 /\ limit = 2 /\ threshold = 0
    /\ ehits = SubSeq(docs[di].hits, 1, 2)

-----------------------------------------------------------------------------
(* Properties of the evaluation batch *)

Perms(n) ==
    {p \in [1..n -> 1..n] : \A a, b \in 1..n : a # b => p[a] # p[b]}

\* the batch after evaluating the documents ds[p[1]], ..., ds[p[k]]
RECURSIVE EvaluateInOrder(_, _, _)
EvaluateInOrder(ds, p, k) ==
    IF k = 0 THEN EvaluationBatch
    ELSE evaluate(EvaluateInOrder(ds, p, k - 1),
                  HitFilter(ds[p[k]].hits, limit, threshold), ds[p[k]].gold)

\* C8: the final metrics of annif evaldir are those of evaluating the
\* documents in any other order.
C8_OrderIndependent ==
    dpc = "done" =>
        \A p \in Perms(Len(docs)) :
            eout = evaldir_lines(results(EvaluateInOrder(docs, p, Len(docs))))

\* three different documents were evaluated and reported
C8_Witness ==
    /\ dpc = "done"
    /\ Len(docs) = 3
    /\ docs[1] # docs[2] /\ docs[2] # docs[3] /\ docs[1] # docs[3]
    /\ eout[1][2] # Zero /\ eout[2][2] # Zero

\* C9: the shards combined by summing totals and counts give the metrics of
\* folding all documents sequentially into one batch.
C9_ShardsEqualSequential ==
    spc = "done" =>
        LET seq == EvaluateInOrder(docs, [i \in 1..Len(docs) |-> i], Len(docs))
        IN /\ combined = seq
           /\ results(combined) = results(seq)

\* three documents spread over two shards
C9_Witness ==
    /\ spc = "done"
    /\ Len(docs) = 3
    /\ shards[1].count[Precision] >= 1 /\ shards[2].count[Precision] >= 1
    /\ results(combined)[Recall] # Zero

\* C10: an evaluate call adds exactly one document's contribution (no count
\* grows by more than one), and a results() call leaves the batch as it is
\* and returns the same values for the same batch.
C10_EvaluateOneResultsPure ==
    [][ /\ di' = di + 1 =>
            /\ eval_batch' =
                   combine(eval_batch,
                           evaluate(EvaluationBatch, ehits', docs[di'].gold))
            /\ \A m \in Metrics :
                   eval_batch'.count[m] - eval_batch.count[m] \in {0, 1}
            /\ eval_batch'.count[Precision] = eval_batch.count[Precision] + 1
        /\ nreads' = nreads + 1 =>
            /\ eval_batch' = eval_batch
            /\ lastres' = results(eval_batch)
            /\ (nreads >= 1 /\ readAt = di) => lastres' = lastres
        /\ (dpc = "loop" /\ dpc' = "done") =>
            /\ eval_batch' = eval_batch
            /\ eout' = evaldir_lines(results(eval_batch))
      ]_vars

\* results() was read twice between two evaluate calls
C10_Witness ==
    /\ dpc = "loop"
    /\ nreads = 2 /\ readAt = di
    /\ di >= 1 /\ di < Len(docs)
    /\ lastres = results(eval_batch)
    /\ lastres[Precision] # Zero

-----------------------------------------------------------------------------
(* Properties of the per-document counts *)

\* the value echoed by an evaluation command for metric m
Echoed(m) ==
    eout[CHOOSE k \in 1..Len(eout) : eout[k][1] = m][2]

\* counts taken position by position from the evaluated hits and the gold set
CountTP == Cardinality({i \in 1..Len(ehits) : ehits[i].subject_id \in docs[1].gold})
CountFP == Cardinality({i \in 1..Len(ehits) : ehits[i].subject_id \notin docs[1].gold})
CountFN ==
    Cardinality({g \in docs[1].gold :
                    \A i \in 1..Len(ehits) : ehits[i].subject_id # g})

\* C11: for the one document of annif eval, TP = |predicted /\ gold|,
\* FP = |predicted - gold| and FN = |gold - predicted|, so TP+FP is the number
\* of predictions and TP+FN the number of gold subjects; the precision echoed
\* is TP/(TP+FP), and 0 when nothing is predicted; gold {1, 2} with predicted
\* [1, 3] gives TP = FP = FN = 1 and precision = recall = F1 = 1/2.
C11_CountsAndPrecision ==
    dpc = "done" /\ Len(docs) = 1 /\ Len(eout) = Len(MetricOrder) =>
        /\ true_positives(ehits, docs[1].gold) = CountTP
        /\ false_positives(ehits, docs[1].gold) = CountFP
        /\ false_negatives(ehits, docs[1].gold) = CountFN
        /\ CountTP + CountFP = Len(ehits)
        /\ CountTP + CountFN = Cardinality(docs[1].gold)
        /\ Echoed(Precision) =
              (IF Len(ehits) = 0 THEN Zero ELSE Rat(CountTP, CountTP + CountFP))
        /\ (docs[1].gold = {1, 2} /\ PredictedSet(ehits) = {1, 3}) =>
              /\ CountTP = 1 /\ CountFP = 1 /\ CountFN = 1
              /\ Echoed(Precision) = <<1, 2>>
              /\ Echoed(Recall) = <<1, 2>>
              /\ Echoed(F1) = <<1, 2>>

C11_Witness ==
    /\ dpc = "done" /\ Len(docs) = 1 /\ Len(eout) = Len(MetricOrder)
    /\ docs[1].gold = {1, 2}
    /\ ehits = <<SubjectSuggestion(1, 18), SubjectSuggestion(3, 6)>>
    /\ Len(docs[1].hits) = 3

-----------------------------------------------------------------------------
(* Properties of the denominators *)

\* the evaluated documents that have gold subjects
WithGold(n) == {i \in 1..n : docs[i].gold # {}}

\* the sum of metric m over the documents of the set I, filtered as the run
\* filters them
RECURSIVE MetricSum(_, _)
MetricSum(m, I) ==
    IF I = {} THEN Zero
    ELSE LET i == CHOOSE j \in I : TRUE
         IN RatAdd(MetricValue(m, HitFilter(docs[i].hits, limit, threshold),
                               docs[i].gold),
                   MetricSum(m, I \ {i}))

\* C12: a document with an empty gold set is left out of the recall and NDCG
\* averages: their denominators are the number of evaluated documents with a
\* non-empty gold set and their echoed values the mean over those documents,
\* while precision's denominator is the number of all evaluated documents.
C12_EmptyGoldExcluded ==
    dpc \in {"loop", "done"} =>
        /\ \A m \in {Recall, NDCG5, NDCG10} :
              /\ eval_batch.count[m] = Cardinality(WithGold(di))
              /\ eval_batch.total[m] = MetricSum(m, WithGold(di))
              /\ (dpc = "done" /\ WithGold(di) # {}) =>
                    Echoed(m) = RatDiv(MetricSum(m, WithGold(di)),
                                       <<Cardinality(WithGold(di)), 1>>)
        /\ eval_batch.count[Precision] = di
        /\ eval_batch.total[Precision] = MetricSum(Precision, 1..di)

C12_Witness ==
    /\ dpc = "done" /\ di = 3
    /\ docs[2].gold = {} /\ docs[2].hits # <<>>
    /\ Cardinality(WithGold(di)) = 2
    /\ eval_batch.count[Recall] = 2 /\ eval_batch.count[Precision] = 3
    /\ Echoed(Recall) # Zero

-----------------------------------------------------------------------------
(* Properties of the sweep of annif optimize *)

SweepKeys == {filter_batches[k].params : k \in 1..Len(filter_batches)}

OnePerPair ==
    \A k1, k2 \in 1..Len(filter_batches) :
        filter_batches[k1].params = filter_batches[k2].params => k1 = k2

\* C13 as stated: the sweep holds exactly one accumulator for every pair of a
\* limit in 1..15 and a threshold in {0, 0.05, ..., 1}, the threshold 1 (20
\* units of 0.05) included.
C13_GridWithThresholdOne ==
    opc \in {"loop", "done", "error"} =>
        /\ SweepKeys = (1..(LimitStop - 1)) \X (0..20)
        /\ OnePerPair

\* C13 amended: the sweep holds exactly one accumulator, with the filter of
\* the pair, for every pair of a limit in 1..15 and a threshold in
\* {0, 0.05, ..., 0.95}; no pair is missing, none is duplicated and the
\* threshold 1 is not part of the sweep.
C13_GridBelowOne ==
    opc \in {"loop", "done", "error"} =>
        /\ SweepKeys = (1..(LimitStop - 1)) \X (0..(ThresholdSteps - 1))
        /\ OnePerPair
        /\ Len(filter_batches) = (LimitStop - 1) * ThresholdSteps
        /\ \A k \in 1..Len(filter_batches) :
              /\ filter_batches[k].params[2] < 20
              /\ filter_batches[k].hit_filter =
                    [limit |-> filter_batches[k].params[1],
                     threshold |-> filter_batches[k].params[2]]

C13_Witness ==
    /\ opc = "loop"
    /\ Len(filter_batches) = 300
    /\ filter_batches[1].params = <<1, 0>>
    /\ filter_batches[300].params = <<15, 19>>

\* the batch of a pair after the first n documents, each filtered with the
\* limit and threshold of the pair
RECURSIVE EvalPrefix(_, _)
EvalPrefix(key, n) ==
    IF n = 0 THEN EvaluationBatch
    ELSE evaluate(EvalPrefix(key, n - 1),
                  HitFilter(docs[n].hits, key[1], key[2]), docs[n].gold)

\* C14: after n documents of a sweep every accumulator has received exactly n
\* evaluate calls, one per document, each with the document filtered by the
\* limit and threshold of its own pair; no accumulator holds anything of
\* another pair.
C14_EachDocumentOncePerPair ==
    opc \in {"loop", "done", "error"} =>
        \A k \in 1..Len(filter_batches) :
            /\ filter_batches[k].calls = oi
            /\ filter_batches[k].batch.count[Precision] = oi
            /\ filter_batches[k].batch = EvalPrefix(filter_batches[k].params, oi)

C14_Witness ==
    /\ opc = "loop" /\ oi = 2 /\ Len(filter_batches) = 300
    /\ filter_batches[1].calls = 2 /\ filter_batches[300].calls = 2
    /\ filter_batches[1].batch # filter_batches[41].batch
    /\ filter_batches[1].batch # filter_batches[20].batch

\* the position of the first pair, in iteration order, whose value of metric
\* m is the highest of all pairs
FirstHighest(m) ==
    LET vals == [k \in 1..Len(filter_batches) |->
                    results(filter_batches[k].batch)[m]]
        top == {k \in 1..Len(vals) : \A j \in 1..Len(vals) : ~RatGT(vals[j], vals[k])}
    IN CHOOSE k \in top : \A j \in top : k <= j

\* C15: after all documents, for every tracked metric the pair selected is
\* the one with the highest value of the metric, the first in iteration order
\* among the pairs with that value.
C15_SelectsFirstHighest ==
    opc \in {"done", "error"} =>
        \A m \in Metrics :
            /\ best_params[m] = filter_batches[FirstHighest(m)].params
            /\ best_scores[m] = results(filter_batches[FirstHighest(m)].batch)[m]

\* C20: the hit filter leaves the analysis of the document as it was, and in
\* the sweep every pair gets the batch it would get if it were the only pair:
\* its result does not depend on the pairs filtered before it.
C20_FilterLeavesInput ==
    [][(opc = "loop" /\ oi' = oi + 1) =>
          /\ ohits' = docs[oi + 1].hits
          /\ \A k \in 1..Len(filter_batches) :
                <<filter_batches'[k]>> =
                    optimize_document(<<filter_batches[k]>>, docs[oi + 1]).batches]_vars

C20_Witness ==
    /\ opc = "loop" /\ oi = 1 /\ Len(filter_batches) = 300
    /\ Len(docs[1].hits) = 3 /\ ohits = docs[1].hits
    /\ HitFilter(ohits, 1, 10) # ohits
    /\ filter_batches[11].batch # filter_batches[300].batch

-----------------------------------------------------------------------------
(* Properties of the hit filter's parameters *)

\* C16: with --limit below 1 or --threshold below 0 the command ends in a
\* configuration error when it constructs the hit filter: nothing is
\* analyzed, filtered, evaluated or echoed, and the option values are never
\* replaced by valid ones.
C16_InvalidFilterIsError ==
    (limit < 1 \/ threshold < 0) =>
        /\ apc \in {"idle", "start", "error"}
        /\ dpc \in {"idle", "start", "error"}
        /\ aout = <<>> /\ eout = <<>>
        /\ di = 0 /\ ehits = <<>> /\ eval_batch = EvaluationBatch

C16_Witness ==
    /\ limit = 0 /\ threshold = 10
    /\ apc = "error" /\ Len(ahits) = 3 /\ ahits[1].score = 18

-----------------------------------------------------------------------------
(* Properties of configuration errors *)

\* C17: in an evaluation run over a directory with an ensemble project, a
\* malformed 'sources' parameter is reported before any document is read.
C17_ErrorBeforeDocuments ==
    dpc = "error" => nread = 0

-----------------------------------------------------------------------------
(* Properties of the Mistral backend *)

\* the API's answer is a failure: no answer, an error status, a body or a
\* message content that is not JSON, or no choices
BackendFailure(response) ==
    \/ response.kind \in {"request_error", "http_error", "bad_body",
                          "no_choices_key"}
    \/ response.choices = <<>>
    \/ ~response.choices[1].json

\* C18: a backend failure of the Mistral API ends _suggest with an empty
\* list, without an exception, after one request and no retry.
C18_FailureIsEmpty ==
    /\ mreq <= 1
    /\ (mpc \in {"done", "raised"} /\ BackendFailure(mresp)) =>
          mpc = "done" /\ mraw = <<>> /\ mreq = 1

\* the labels of a JSON list answer, and those that name a vocabulary label
AnswerLabels == mresp.choices[1].labels
Resolvable == {i \in 1..Len(AnswerLabels) : AnswerLabels[i] \in DOMAIN terms_rev(vocab)}

\* C19: when the answer names a label that is no label of the vocabulary,
\* _suggest raises nothing and returns one suggestion for every other label
\* of the answer, in the order of the answer, each for the subject of its
\* label; the unknown label yields nothing.
C19_UnknownLabelDropped ==
    (mpc \in {"done", "raised"} /\ ~BackendFailure(mresp)) =>
        /\ mpc = "done"
        /\ Len(mraw) = Cardinality(Resolvable)
        /\ \A i \in Resolvable :
              /\ \E k \in 1..Len(mraw) :
                    /\ mraw[k].subject_id # NoSubject
                    /\ vocab[mraw[k].subject_id].label = AnswerLabels[i]
                    /\ mraw[k].score = 18 - (i - 1)
              /\ \E k \in 1..Len(msug) :
                    vocab[msug[k].subject_id].label = AnswerLabels[i]
        /\ \A k \in 1..Len(mraw) :
              vocab[mraw[k].subject_id].label \in Range(AnswerLabels)

C19_Witness ==
    /\ mpc = "done" /\ ~BackendFailure(mresp)
    /\ AnswerLabels = <<"w", "x", "y">>
    /\ Len(mraw) = 2 /\ mraw[1].score = 17 /\ mraw[2].score = 16

-----------------------------------------------------------------------------
(* Properties of the summary of annif optimize *)

\* C24: at the end of run_optimize every one of the five metrics has a best
\* (limit, threshold) pair and the summary is echoed in full, one "Best" line
\* per metric after the table, without an error.
C24_SummaryForEveryMetric ==
    opc \in {"done", "error"} =>
        /\ opc = "done"
        /\ \A m \in Metrics : best_params[m] \in SweepKeys
        /\ Len(oout) = Len(filter_batches) + Len(MetricOrder)

-----------------------------------------------------------------------------
(* Properties of the label translation of a transformer backend *)

\* what run_pipeline returned for the non-empty texts of the call
PipelineOutput ==
    run_pipeline(vocab, Filter(texts, LAMBDA t : Strip(t) # <<>>), zsres,
                 params, params.limit)

\* C26: the translation of pipeline labels back to subject URIs loses
\* nothing: every active subject's URI is the translation of some candidate
\* label, and no result of run_pipeline holds the same URI twice.
C26_LabelTranslationLossless ==
    bpc = "done" =>
        /\ \A i \in 1..Len(vocab) :
              \E l \in DOMAIN terms_rev(vocab) : terms_rev(vocab)[l] = vocab[i].uri
        /\ \A k \in 1..Len(PipelineOutput) :
              \A j1, j2 \in 1..Len(PipelineOutput[k]) :
                  PipelineOutput[k][j1][1] = PipelineOutput[k][j2][1] => j1 = j2

-----------------------------------------------------------------------------
(* Specifications of the EhriBert backend and of the corpus readers *)

\* a call of run_pipeline on the EhriBert backend
InitB ==
    /\ vocab \in Vocabs
    /\ texts \in SeqsUpTo({<<"a">>}, MaxTexts)
    /\ params \in ParamSet
    /\ zsres = <<>> /\ batch = <<>> /\ bpc = "idle"
    /\ MistralIdle /\ EnsembleIdle /\ CliIdle
    /\ InitEhri /\ DirIdle /\ AnalyzedirIdle /\ FileIdle
NextB == EhriRunPipeline
SpecEhriBert == InitB /\ [][NextB]_vars

\* an iteration through a DocumentDirectory
InitDD ==
    /\ BatchIdle /\ MistralIdle /\ EnsembleIdle /\ CliIdle
    /\ EhriIdle /\ InitDir /\ AnalyzedirIdle /\ FileIdle
NextDD == DirGlob \/ DirNext \/ DirStop
SpecDirectory == InitDD /\ [][NextDD]_vars

\* annif analyzedir
InitAD ==
    /\ vocab \in Vocabs /\ VocabIdle
    /\ MistralIdle /\ EnsembleIdle
    /\ InitOpt /\ AnalyzeIdle /\ EvaldirIdle /\ ReadIdle /\ ShardIdle
    /\ SweepIdle /\ IoIdle
    /\ EhriIdle /\ InitAnalyzedir /\ FileIdle
NextAD == AnalyzedirStart \/ AnalyzedirDoc \/ AnalyzedirFinish
SpecAnalyzedir == InitAD /\ [][NextAD]_vars

\* the documents of a DocumentFile
InitF ==
    /\ BatchIdle /\ MistralIdle /\ EnsembleIdle /\ CliIdle
    /\ EhriIdle /\ DirIdle /\ AnalyzedirIdle /\ InitFile
NextF == FileLine \/ FileEnd
SpecFile == InitF /\ [][NextF]_vars

-----------------------------------------------------------------------------
(* Properties of the EhriBert backend *)

\* C25: run_pipeline applies the threshold strictly, as the hit filter does:
\* no entry it returns has a score equal to the threshold parameter, and it
\* returns at most num entries per text.
C25_ThresholdStrict ==
    bertpc = "done" =>
        \A k \in 1..Len(bert_results) :
            /\ Len(bert_results[k]) <= params.limit
            /\ \A j \in 1..Len(bert_results[k]) :
                  bert_results[k][j][3] # params.threshold

\* C27: run_pipeline does not fail on a model label that the vocabulary does
\* not have: the call returns, and every prediction that passes the
\* threshold and names a subject of the vocabulary is returned when the
\* result has room for it.
C27_AbsentLabelDropped ==
    bertpc \in {"done", "raised"} =>
        /\ bertpc = "done"
        /\ \A k \in 1..Len(bert_results) :
              \A idx \in 1..Len(id2label) :
                  ( /\ probs[k][idx] >= params.threshold
                    /\ id2label[idx] \in DOMAIN label_texts(vocab, id2label)
                    /\ Len(bert_results[k]) < params.limit )
                  => \E j \in 1..Len(bert_results[k]) :
                        bert_results[k][j][1] =
                            label_to_uri(vocab)[id2label[idx]]

-----------------------------------------------------------------------------
(* Properties of annif analyzedir *)

\* C21: without --force a step of run_analyzedir leaves every existing
\* output file as it is; the document whose output file exists is not
\* analyzed and the loop goes on to the next document, and a document
\* without one (or any document with --force) is analyzed and its output
\* file written.
C21_ExistingOutputKept ==
    [][ (adpc = "loop" /\ globbed # <<>>) =>
          LET d == Head(globbed)
              o == <<d[1], Suffix>>
          IN /\ \A name \in DOMAIN fs :
                   (name[2] = Suffix /\ ~force) =>
                       name \in DOMAIN fs' /\ fs'[name] = fs[name]
             /\ (o \in DOMAIN fs /\ ~force) =>
                   analyzed' = analyzed /\ fs' = fs
             /\ (o \notin DOMAIN fs \/ force) =>
                   /\ analyzed' = Append(analyzed, d)
                   /\ o \in DOMAIN fs'
                   /\ fs'[o] = run_analyze(vocab, project_analyze(fs[d]),
                                           limit, threshold)
             /\ globbed' = Tail(globbed)
      ]_vars

\* a finished run without --force that kept the output file of one document
\* and analyzed a later one
C21_Witness ==
    /\ adpc = "done"
    /\ ~force
    /\ \E st1, st2 \in Stems :
          /\ st1 < st2
          /\ <<st1, Suffix>> \in DOMAIN fs
          /\ fs[<<st1, Suffix>>] = OldLines
          /\ <<st1, ".txt">> \in {yielded[i][1] : i \in 1..Len(yielded)}
          /\ <<st1, ".txt">> \notin Range(analyzed)
          /\ <<st2, ".txt">> \in Range(analyzed)
          /\ <<st1, Suffix>> \in Range(adout)

-----------------------------------------------------------------------------
(* Properties of DocumentDirectory *)

\* the subject file that belongs to a document of the directory
SubjectFileOf(name) ==
    IF <<name[1], ".tsv">> \in DOMAIN fs THEN <<name[1], ".tsv">>
    ELSE IF <<name[1], ".key">> \in DOMAIN fs THEN <<name[1], ".key">>
    ELSE NoneFile

\* C22: the pairs yielded are one per .txt file at most and in sorted file
\* name order; the subject file of a pair is the .tsv file when it exists,
\* else the .key file, else None; with require_subjects no pair has None and
\* the documents without subject file are skipped, without it every .txt
\* file is yielded.
C22_DirectoryPairs ==
    ipc \in {"iter", "done"} =>
        /\ \A i \in 1..Len(yielded) :
              /\ yielded[i][1] \in glob_txt(fs)
              /\ yielded[i][2] = SubjectFileOf(yielded[i][1])
              /\ require_subjects => yielded[i][2] # NoneFile
        /\ \A i, j \in 1..Len(yielded) :
              i < j => yielded[i][1][1] < yielded[j][1][1]
        /\ ipc = "done" =>
              \A name \in glob_txt(fs) :
                  (\E i \in 1..Len(yielded) : yielded[i][1] = name)
                  <=> (~require_subjects \/ SubjectFileOf(name) # NoneFile)

\* a finished iteration with require_subjects that skipped a document
\* without subject file and yielded the .tsv file of a later document that
\* has a .key file as well
C22_Witness ==
    /\ ipc = "done"
    /\ require_subjects
    /\ \E st1, st2 \in Stems :
          /\ st1 < st2
          /\ <<st1, ".txt">> \in DOMAIN fs
          /\ SubjectFileOf(<<st1, ".txt">>) = NoneFile
          /\ {<<st2, ".txt">>, <<st2, ".tsv">>, <<st2, ".key">>}
                \subseteq DOMAIN fs
          /\ <<<<st2, ".txt">>, <<st2, ".tsv">>>> \in Range(yielded)

-----------------------------------------------------------------------------
(* Properties of DocumentFile *)

\* C23: the documents yielded are those of the lines read that have a tab,
\* one per line and in line order, each with the text before the line's
\* first tab and the URIs after it; a line without a tab yields nothing and
\* is logged, and the reading goes on to the end of the file.
C23_TabLines ==
    fpc \in {"read", "done"} =>
        LET read == SubSeq(lines, 1, li)
            tabbed == Filter(read, HasTab)
            tabless == Filter(read, LAMBDA l : ~HasTab(l))
        IN /\ Len(fdocs) = Len(tabbed)
           /\ \A k \in 1..Len(fdocs) :
                 LET t == fdocs[k].text
                     l == tabbed[k]
                     rest == SubSeq(l, Len(t) + 2, Len(l))
                 IN /\ Len(t) < Len(l)
                    /\ SubSeq(l, 1, Len(t)) = t
                    /\ l[Len(t) + 1] = "\t"
                    /\ ~HasTab(t)
                    /\ fdocs[k].uris =
                          [n \in 1..Len(split(rest)) |->
                              cleanup_uri(split(rest)[n])]
           /\ Len(warnings) = Len(tabless)
           /\ fpc = "done" => li = Len(lines)

\* a file read to its end, with a line without a tab before a line with two
\* tabs
C23_Witness ==
    /\ fpc = "done"
    /\ \E i, j \in 1..Len(lines) :
          /\ i < j
          /\ ~HasTab(lines[i])
          /\ Len(Filter(lines[j], LAMBDA ch : ch = "\t")) = 2
    /\ Len(fdocs) >= 1
    /\ fdocs[Len(fdocs)].uris = <<<<"u">>, <<"v">>>>
    /\ warnings # <<>>

====
